---- MODULE Spec2Model ----
(***************************************************************************)
(* A model of the wikimd content service (internal/content/service.go),    *)
(* its render cache (internal/renderer) and its tree builder               *)
(* (internal/content/tree).                                                *)
(*                                                                         *)
(* Strings are sequences of atoms.  An atom is a path separator, a dot, a  *)
(* blank, or a run of letters ("a", "md", "markdown"); runs of letters are *)
(* opaque to every function modelled here except the two suffix tests for  *)
(* ".md" and ".markdown".  Paths follow the rules of a Unix build          *)
(* (os.PathSeparator = '/', no volume names).                              *)
(***************************************************************************)
EXTENDS Integers, Sequences, FiniteSets, TLC

VARIABLES
  pathIn, pathOut,   \* a call of resolveDocumentPath: its argument and its result
  walk,              \* a call of tree.Build: the directory it walks and its result
  link,              \* a link of a document at the link transformer, and what it becomes
  classified,        \* a raw watcher event at classifyEvent, and the type it is given
  pending,           \* the event handleEvent has rebuilt the tree for and is yet to broadcast
  renders,           \* the calls of Render under way, each between its cache lookup and its store
  writer,            \* the middleware chain and the writer the /events handler got
  extracted,         \* the metadata two uncached renders of one document extracted
  cache,             \* renderer.Service.cache: key -> cacheEntry
  rcall, rprev,      \* the last two calls made on the renderer directly
  files, dirs,       \* the filesystem below the root: files by path, directories
  clock,             \* the filesystem's clock, in ticks of its timestamp resolution
  includeHidden,     \* Options.IncludeHidden
  watched,           \* the directories the fsnotify watcher watches
  events,            \* watcher.Events: the raw events not yet handled
  tree,              \* Service.tree: the published snapshot
  rebuildOK,         \* what the last rebuildTree returned
  subs, subCounter,  \* Service.subscribers and their channels; Service.subCounter
  closed,            \* "no" | "cancelled" (s.cancel() done) | "closed" (watcher closed)
  callers,           \* the calls of Document and of the four mutations in progress
  writeMu,           \* Service.writeMu: 0 when free, else the caller holding it
  last,              \* the last mutation that completed and what it moved or wrote
  owed,              \* per subscriber: the documents written while it was registered
                     \* with room, no pageUpdated event for which has reached its channel
  temps,             \* per caller: the temp sibling its writeFileAtomic has on disk
  history,           \* the events broadcast, and which of them each subscriber was sent
  request, response, \* an HTTP request at the CSRF middleware, and what answers it
  conn               \* a connection to GET /events: its handler and what it has written

pathVars == <<pathIn, pathOut, walk, link, classified, pending, renders, writer, extracted>>
renderVars == <<cache, rcall, rprev>>
callVars == <<rcall, rprev>>
fsVars == <<files, dirs, clock>>
watchVars == <<watched, events>>
subVars == <<subs, subCounter>>
otherVars == <<temps, history, request, response, conn>>
svcVars == <<files, dirs, clock, includeHidden, watched, events, tree, rebuildOK,
             subs, subCounter, closed, callers, writeMu, last, owed, otherVars>>
vars == <<pathIn, pathOut, walk, link, classified, pending, renders, writer, extracted, cache, rcall, rprev, files, dirs, clock, includeHidden,
          watched, events, tree, rebuildOK, subs, subCounter, closed, callers,
          writeMu, last, owed, temps, history, request, response, conn>>

\* ---------------------------------------------------------------- bounds
MaxPathLen == 4
MaxDestLen == 4
NumRenderers == 2
MaxClock == 2
NumContents == 2
MaxEvents == 6
MaxSubs == 2
NumCallers == 2
NumChunks == 2

\* ---------------------------------------------------------------- strings
Atoms == {"/", ".", " ", "a", "md", "markdown"}

Str(n) == UNION {[1..k -> Atoms] : k \in 0..n}

HasPrefix(s, p) == Len(s) >= Len(p) /\ SubSeq(s, 1, Len(p)) = p

HasSuffix(s, p) == Len(s) >= Len(p) /\ SubSeq(s, Len(s) - Len(p) + 1, Len(s)) = p

Contains(s, p) == \E i \in 1..(Len(s) - Len(p) + 1) : SubSeq(s, i, i + Len(p) - 1) = p

RECURSIVE TrimLeft(_)
TrimLeft(s) == IF s # <<>> /\ Head(s) = " " THEN TrimLeft(Tail(s)) ELSE s

RECURSIVE TrimRight(_)
TrimRight(s) ==
  IF s # <<>> /\ s[Len(s)] = " " THEN TrimRight(SubSeq(s, 1, Len(s) - 1)) ELSE s

TrimSpace(s) == TrimRight(TrimLeft(s))

\* strings.LastIndex(s, a), counted in atoms from 1; 0 when there is none
LastIndex(s, a) ==
  IF \E i \in 1..Len(s) : s[i] = a
  THEN CHOOSE i \in 1..Len(s) : s[i] = a /\ \A j \in (i + 1)..Len(s) : s[j] # a
  ELSE 0

\* a sequence without its last element
Front(seq) == SubSeq(seq, 1, Len(seq) - 1)

\* the elements of a path between separators, empty elements included
RECURSIVE SplitFrom(_, _, _)
SplitFrom(s, i, cur) ==
  IF i > Len(s) THEN <<cur>>
  ELSE IF s[i] = "/" THEN <<cur>> \o SplitFrom(s, i + 1, <<>>)
  ELSE SplitFrom(s, i + 1, Append(cur, s[i]))

Split(s) == SplitFrom(s, 1, <<>>)

RECURSIVE JoinSegs(_)
JoinSegs(segs) ==
  IF segs = <<>> THEN <<>>
  ELSE IF Len(segs) = 1 THEN segs[1]
  ELSE segs[1] \o <<"/">> \o JoinSegs(Tail(segs))

Dot == <<".">>
DotDot == <<".", ".">>

\* path/filepath.Clean: the stack of elements left after dropping empty and
\* "." elements and resolving ".." against the element before it
RECURSIVE CleanSegs(_, _, _)
CleanSegs(segs, stack, rooted) ==
  IF segs = <<>> THEN stack
  ELSE LET e == Head(segs)
           rest == Tail(segs)
       IN IF e = <<>> \/ e = Dot THEN CleanSegs(rest, stack, rooted)
          ELSE IF e = DotDot
            THEN IF stack # <<>> /\ stack[Len(stack)] # DotDot
                   THEN CleanSegs(rest, SubSeq(stack, 1, Len(stack) - 1), rooted)
                 ELSE IF rooted THEN CleanSegs(rest, stack, rooted)
                 ELSE CleanSegs(rest, Append(stack, e), rooted)
          ELSE CleanSegs(rest, Append(stack, e), rooted)

IsAbs(s) == HasPrefix(s, <<"/">>)

Clean(s) ==
  LET stack == CleanSegs(Split(s), <<>>, IsAbs(s))
  IN IF IsAbs(s) THEN <<"/">> \o JoinSegs(stack)
     ELSE IF stack = <<>> THEN Dot
     ELSE JoinSegs(stack)

\* filepath.VolumeName: empty on a Unix build
VolumeName(s) == <<>>

\* filepath.ToSlash / FromSlash: replace os.PathSeparator by '/', which on a
\* Unix build is the same character
ToSlash(s) == [i \in 1..Len(s) |-> IF s[i] = "/" THEN "/" ELSE s[i]]
FromSlash(s) == [i \in 1..Len(s) |-> IF s[i] = "/" THEN "/" ELSE s[i]]

\* filepath.Join of two elements
Join(a, b) ==
  IF a = <<>> /\ b = <<>> THEN <<>>
  ELSE IF a = <<>> THEN Clean(b)
  ELSE IF b = <<>> THEN Clean(a)
  ELSE Clean(a \o <<"/">> \o b)

\* filepath.Abs of a path that is absolute already
Abs(s) == Clean(s)

RECURSIVE CommonLen(_, _)
CommonLen(x, y) ==
  IF x # <<>> /\ y # <<>> /\ Head(x) = Head(y) THEN 1 + CommonLen(Tail(x), Tail(y))
  ELSE 0

\* filepath.Rel of two absolute paths
Rel(base, targ) ==
  LET b == CleanSegs(Split(base), <<>>, TRUE)
      t == CleanSegs(Split(targ), <<>>, TRUE)
      n == CommonLen(b, t)
      ups == [i \in 1..(Len(b) - n) |-> DotDot]
      segs == ups \o SubSeq(t, n + 1, Len(t))
  IN IF segs = <<>> THEN Dot ELSE JoinSegs(segs)

\* the service root, /r
Root == <<"/", "r">>

ExtMd == <<".", "md">>
ExtMarkdown == <<".", "markdown">>

ErrNone == "ok"
ErrInvalidPath == "invalid path"
ErrEscapesRoot == "resolved path escapes root"

Failure(e) == [err |-> e, rel |-> <<>>, abs |-> <<>>]

\* mutant: the test for an absolute path is missing
resolveWithoutAbsCheck(relPath) ==
  LET trimmed == TrimSpace(relPath)
      clean == Clean(trimmed)
      slash == ToSlash(clean)
      withExt == IF ~HasSuffix(slash, ExtMd) /\ ~HasSuffix(slash, ExtMarkdown)
                 THEN slash \o ExtMd ELSE slash
      abs == Abs(Join(Root, FromSlash(withExt)))
      relToRoot == Rel(Root, abs)
  IN IF trimmed = <<>> THEN Failure(ErrInvalidPath)
     ELSE IF clean = Dot \/ clean = <<>> THEN Failure(ErrInvalidPath)
     ELSE IF HasPrefix(slash, <<".", ".", "/">>) \/ Contains(slash, <<"/", ".", ".", "/">>)
       THEN Failure(ErrInvalidPath)
     ELSE IF relToRoot = DotDot \/ HasPrefix(relToRoot, <<".", ".", "/">>)
       THEN Failure(ErrEscapesRoot)
     ELSE [err |-> ErrNone, rel |-> withExt, abs |-> abs]

resolveDocumentPath(relPath) ==
  LET trimmed == TrimSpace(relPath)
      clean == Clean(trimmed)
      slash == ToSlash(clean)
      withExt == IF ~HasSuffix(slash, ExtMd) /\ ~HasSuffix(slash, ExtMarkdown)
                 THEN slash \o ExtMd ELSE slash
      abs == Abs(Join(Root, FromSlash(withExt)))
      relToRoot == Rel(Root, abs)
  IN IF trimmed = <<>> THEN Failure(ErrInvalidPath)
     ELSE IF clean = Dot \/ clean = <<>> THEN Failure(ErrInvalidPath)
     ELSE IF IsAbs(clean) THEN Failure(ErrInvalidPath)
     ELSE IF VolumeName(clean) # <<>> THEN Failure(ErrInvalidPath)
     ELSE IF HasPrefix(slash, <<".", ".", "/">>) \/ Contains(slash, <<"/", ".", ".", "/">>)
       THEN Failure(ErrInvalidPath)
     ELSE IF relToRoot = DotDot \/ HasPrefix(relToRoot, <<".", ".", "/">>)
       THEN Failure(ErrEscapesRoot)
     ELSE [err |-> ErrNone, rel |-> withExt, abs |-> abs]

NotCalled == [err |-> "not called", rel |-> <<>>, abs |-> <<>>]

\* ----------------------------------------------------------- render cache
\* time.Time{}: the zero time; the times of the filesystem clock start at 1
ZeroTime == 0
Times == 0..MaxClock
Contents == 1..NumContents

\* path.Dir of a slash-separated path
Dir(s) ==
  LET segs == Split(s)
  IN IF Len(segs) <= 1 THEN (IF IsAbs(s) THEN <<"/">> ELSE Dot)
     ELSE Clean(JoinSegs(SubSeq(segs, 1, Len(segs) - 1)))

DocA == <<"a", ".", "md">>
DocB == <<"b", ".", "md">>
DocDC == <<"d", "/", "c", ".", "md">>

DocH == <<".", "h", "/", "a", ".", "md">>
DocV == <<"vendor", "/", "a", ".", "md">>

\* a text file's name, and the document resolveDocumentPath makes of it
NotesTxt == <<"notes", ".", "txt">>
DocTxt == NotesTxt \o ExtMd

RelPaths == {DocA, DocB, DocDC, DocH, DocV, DocTxt}
AbsOf(rel) == Join(Root, rel)
FilePaths == {AbsOf(r) : r \in RelPaths}
CacheKeys == RelPaths \cup FilePaths

\* goldmark's Convert: the HTML is a function of the markdown and, through the
\* link transformer, of the directory of the document's path
KeyDir == [k \in CacheKeys |-> Dir(k)]
Convert(path, content) == [dir |-> KeyDir[path], md |-> content]

NoDoc == [HTML |-> [dir |-> <<>>, md |-> 0], Modified |-> ZeroTime, Raw |-> 0]
NoEntry == [present |-> FALSE, modTime |-> ZeroTime, doc |-> NoDoc]
EmptyCache == [k \in CacheKeys |-> NoEntry]

\* the link transformer ----------------------------------------------------
\* a URL scheme is the atom that ends in ":", and "//" is two separators
SchemeHttp == <<"http:", "/", "/">>
SchemeHttps == <<"https:", "/", "/">>
PagePrefix == <<"/", "page", "/">>

isExternalLink(dest) == HasPrefix(dest, SchemeHttp) \/ HasPrefix(dest, SchemeHttps)

\* strings.TrimPrefix(dest, "/")
TrimSlash(dest) == IF HasPrefix(dest, <<"/">>) THEN Tail(dest) ELSE dest

normalizeWikiPath(dest, currentDir) ==
  LET joined == IF currentDir # <<>> /\ currentDir # Dot THEN Join(currentDir, dest) ELSE dest
  IN IF ~HasPrefix(dest, <<"/">>) THEN TrimSlash(Clean(joined)) ELSE TrimSlash(dest)

\* linkTransformer.transformLink: the destination the link is left with
transformLink(dest, currentDir) ==
  IF dest = <<>> \/ isExternalLink(dest) \/ HasPrefix(dest, <<"#">>) \/ HasPrefix(dest, PagePrefix)
    THEN dest
  ELSE IF ~HasSuffix(dest, ExtMd) THEN dest
  ELSE PagePrefix \o normalizeWikiPath(dest, currentDir)

\* no link has been transformed
NoLink == [doc |-> <<>>, dest |-> <<>>, out |-> <<>>, done |-> FALSE]

\* mutant: the cache is looked up by path alone
CacheHitAnyTime(c, path, modTime) == c[path].present

\* the hit test of Render: an entry is there, its time is not the zero time,
\* and modTime.Equal(cached.modTime)
CacheHit(c, path, modTime) ==
  /\ c[path].present
  /\ c[path].modTime # ZeroTime
  /\ modTime = c[path].modTime

\* mutant: the document of the entry is replaced and its time is left
cacheStoreDocOnly(c, key, modTime, doc) ==
  [c EXCEPT ![key] = [present |-> TRUE, modTime |-> @.modTime, doc |-> doc]]

\* s.cache.Store(key, cacheEntry{modTime, doc}): sync.Map replaces the value of
\* the key as a whole
cacheStore(c, key, modTime, doc) ==
  [c EXCEPT ![key] = [present |-> TRUE, modTime |-> modTime, doc |-> doc]]

\* renderer.Service.Render: the document returned, the cache left behind, and
\* whether the markdown was converted
Render(c, path, modTime, content) ==
  LET doc == [HTML |-> Convert(path, content), Modified |-> modTime, Raw |-> content]
  IN IF CacheHit(c, path, modTime)
       THEN [doc |-> c[path].doc, cache |-> c, converted |-> FALSE]
       ELSE [doc |-> doc, cache |-> cacheStore(c, path, modTime, doc), converted |-> TRUE]

\* renderer.Service.Invalidate: sync.Map.Delete of the key
Invalidate(c, path) ==
  IF path \in DOMAIN c THEN [c EXCEPT ![path] = NoEntry] ELSE c

NoCall == [op |-> "none", path |-> <<>>, modTime |-> ZeroTime, content |-> 0,
           loaded |-> NoEntry, doc |-> NoDoc, converted |-> FALSE]

\* the goroutines that call Render at the same time; none has called yet
Renderers == 1..NumRenderers
NoRenders == [g \in Renderers |-> [NoCall EXCEPT !.op = "idle"]]

\* ------------------------------------------------------------ filesystem
NoFile == [exists |-> FALSE, content |-> 0, mtime |-> ZeroTime]
NoFiles == [f \in FilePaths |-> NoFile]

DirD == <<"/", "r", "/", "d">>
DirH == <<"/", "r", "/", ".", "h">>
DirVendor == <<"/", "r", "/", "vendor">>

\* filepath.Base
Base(s) == LET segs == Split(s) IN segs[Len(segs)]

\* os.Stat(p) succeeds
PathExists(fs, ds, p) == (p \in DOMAIN fs /\ fs[p].exists) \/ p \in ds

\* strings.ToLower, on the atoms that have upper-case letters
LowerAtom(a) ==
  CASE a = "MD" -> "md" [] a = "VENDOR" -> "vendor" [] a = "EXAMPLE" -> "example" [] OTHER -> a
ToLower(s) == [i \in 1..Len(s) |-> LowerAtom(s[i])]

isMarkdownPath(path) ==
  LET name == ToLower(path)
  IN HasSuffix(name, ExtMd) \/ HasSuffix(name, ExtMarkdown)

\* strings.HasPrefix(name, ".")
IsHiddenName(name) == HasPrefix(name, Dot)

\* the directory and its ancestors below the root, the directory included
RECURSIVE UpTo(_)
UpTo(dir) == IF dir = Root \/ ~HasPrefix(dir, Root) THEN {} ELSE {dir} \cup UpTo(Dir(dir))

\* os.CreateTemp(dir, ".wikimd-*")
TempName(dir) == dir \o <<"/", ".", "wikimd-">>

\* the names the model's filesystem can hold, and the path functions on them
DirPaths == {Root, DirD, DirH, DirVendor}
Names == FilePaths \cup DirPaths \cup {TempName(d) : d \in DirPaths}
DirOf == [n \in Names |-> Dir(n)]
AboveOf == [d \in DirPaths |-> UpTo(d)]

\* the event fsnotify delivers for a change of the entry `name`: one is
\* raised only while the directory holding the entry is watched
Raise(w, evs, name, op) ==
  IF DirOf[name] \in w THEN Append(evs, [Name |-> name, Op |-> {op}]) ELSE evs

RECURSIVE RaiseAll(_, _, _)
RaiseAll(w, evs, list) ==
  IF list = <<>> THEN evs
  ELSE RaiseAll(w, Raise(w, evs, list[1][1], list[1][2]), Tail(list))

\* os.MkdirAll: the directories it leaves and the events it raises; a new
\* directory is not watched, so only the topmost new one can raise an event
MkdirAll(ds, w, evs, dir) ==
  LET missing == AboveOf[dir] \ ds
      seen == {m \in missing : DirOf[m] \in w}
      top == CHOOSE m \in seen : TRUE
  IN [dirs |-> ds \cup missing,
      events |-> IF seen = {} THEN evs ELSE Append(evs, [Name |-> top, Op |-> {"Create"}])]

\* writeFileAtomic: the temp sibling is created, written, chmod-ed and renamed
\* over the target, which then holds the data with the time of the write
writeFileAtomic(fs, w, evs, now, target, data) ==
  LET tmp == TempName(DirOf[target])
  IN [files |-> [fs EXCEPT ![target] = [exists |-> TRUE, content |-> data, mtime |-> now]],
      events |-> RaiseAll(w, evs, << <<tmp, "Create">>, <<tmp, "Write">>, <<tmp, "Chmod">>,
                                   <<tmp, "Rename">>, <<target, "Create">> >>)]

\* the steps of writeFileAtomic.  The data reaches the temp sibling in
\* NumChunks writes; a file only part of whose data has been written holds
\* content 0, which no document has
NoTemp == [exists |-> FALSE, name |-> <<>>, data |-> 0, chunks |-> 0, mtime |-> ZeroTime]
NoTemps == [c \in 1..NumCallers |-> NoTemp]

Holding(tp) == IF tp.chunks = NumChunks THEN tp.data ELSE 0

\* os.CreateTemp(dir, ".wikimd-*")
createTemp(target, data, now) ==
  [exists |-> TRUE, name |-> TempName(DirOf[target]), data |-> data, chunks |-> 0, mtime |-> now]

\* mutant: the data is written to the target itself
writeChunkInPlace(fs, tp, target, now) ==
  [files |-> [fs EXCEPT ![target] = [exists |-> TRUE, content |-> 0, mtime |-> now]],
   temp |-> [tp EXCEPT !.chunks = @ + 1, !.mtime = now]]

\* tmp.Write(data), one write of it
writeChunk(fs, tp, target, now) ==
  [files |-> fs, temp |-> [tp EXCEPT !.chunks = @ + 1, !.mtime = now]]

\* os.Rename(tmpName, target)
renameTemp(fs, tp, target) ==
  [fs EXCEPT ![target] = [exists |-> TRUE, content |-> Holding(tp), mtime |-> tp.mtime]]

\* ------------------------------------------------------------ tree builder
defaultExcludedDirs ==
  { <<"node_modules">>, <<"vendor">>, <<"venv">>, <<".", "venv">>, <<"deps">>,
    <<"third_party">>, <<".", "git">>, <<".", "hg">>, <<".", "svn">>, <<".", "idea">>,
    <<".", "vscode">>, <<"__pycache__">> }

isMarkdown(name) ==
  LET lower == ToLower(name)
  IN HasSuffix(lower, ExtMd) \/ HasSuffix(lower, ExtMarkdown)

\* mutant: the name is looked up as it is spelled
isExcludedExact(name) == name \in defaultExcludedDirs

isExcluded(name) == ToLower(name) \in {ToLower(n) : n \in defaultExcludedDirs}

\* mutant: IncludeHidden is ignored
ReachedNeverHidden(rel, hidden) ==
  LET segs == Split(rel)
  IN /\ \A i \in 1..Len(segs) : ~HasPrefix(segs[i], <<".">>)
     /\ \A i \in 1..(Len(segs) - 1) : ~isExcluded(segs[i])
     /\ isMarkdown(segs[Len(segs)])

\* buildDir reaches the entry at rel: no element of the path is hidden (unless
\* IncludeHidden), no directory on it is excluded, and the entry is markdown
Reached(rel, hidden) ==
  LET segs == Split(rel)
  IN /\ \A i \in 1..Len(segs) : hidden \/ ~IsHiddenName(segs[i])
     /\ \A i \in 1..(Len(segs) - 1) : ~isExcluded(segs[i])
     /\ isMarkdown(segs[Len(segs)])

normalizeRelative(rel) ==
  LET clean == ToSlash(rel)
  IN IF HasPrefix(clean, <<".", "/">>) THEN SubSeq(clean, 3, Len(clean)) ELSE clean

\* the frontmatter title of a rendered document, which is part of its markdown
TitleOf(doc) == doc.Raw

\* tree.Build: the file nodes of the tree and the cache its renders leave
\* the files buildDir reaches from the root, were they all there, and the
\* relative path buildFileNode gives each
ReachedFiles == [hidden \in BOOLEAN |-> {f \in FilePaths : Reached(Rel(Root, f), hidden)}]
NodePath == [f \in FilePaths |-> normalizeRelative(Rel(Root, f))]

Build(fs, c, hidden) ==
  LET inc == {f \in ReachedFiles[hidden] : fs[f].exists}
      rendered(f) == Render(c, NodePath[f], fs[f].mtime, fs[f].content)
      fileOf(k) == CHOOSE f \in inc : NodePath[f] = k
  IN [nodes |-> {[RelativePath |-> NodePath[f], Modified |-> fs[f].mtime,
                  Title |-> TitleOf(rendered(f).doc)] : f \in inc},
      cache |-> [k \in DOMAIN c |->
                   IF \E f \in inc : NodePath[f] = k THEN rendered(fileOf(k)).cache[k] ELSE c[k]]]

\* Service.tree before a tree has been stored: the nil pointer
NilTree == {[RelativePath |-> <<>>, Modified |-> ZeroTime, Title |-> 0]}

\* initTree: the node is stored if Build returned no error
initTree(ok, built) == IF ok THEN built ELSE NilTree

\* mutant: the node Build returned is stored whether or not it failed
rebuildTreeStoresFailure(ok, current, built) == IF ok THEN built ELSE NilTree

\* mutant: the snapshot stays whatever Build returned
rebuildTreeKeeps(ok, current, built) == current

\* rebuildTree: the node is stored if Build returned no error, else the
\* snapshot stays
rebuildTree(ok, current, built) == IF ok THEN built ELSE current

\* ------------------------------------------------- the tree, node by node
\* the directory tree.Build walks: what can be below the root, listed for each
\* directory in the order of os.ReadDir (sorted by file name, byte-wise).
\* Names are made of one-letter atoms, but for the extensions and VENDOR
RootRel == <<>>
WalkD == <<"d">>
WalkDE == <<"d", "/", "e">>
WalkH == <<".", "h">>
WalkV == <<"VENDOR">>
WalkX == <<"x">>
WalkDirs == {WalkD, WalkDE, WalkH, WalkV, WalkX}

Listing(rel) ==
  CASE rel = RootRel -> << <<".", "h">>, <<".", "s", ".", "md">>, <<"B", ".", "MD">>, <<"VENDOR">>,
                          <<"a", ".", "md">>, <<"c", ".", "txt">>, <<"d">>, <<"x">> >>
    [] rel = WalkD -> << <<"a", ".", "md">>, <<"e">> >>
    [] rel = WalkDE -> << <<"b", ".", "markdown">> >>
    [] rel = WalkH -> << <<"a", ".", "md">> >>
    [] rel = WalkV -> << <<"a", ".", "md">> >>
    [] rel = WalkX -> << <<"c", ".", "txt">> >>
    [] OTHER -> <<>>

\* filepath.Join(relPath, entry.Name())
ChildRel(rel, name) == IF rel = RootRel THEN name ELSE rel \o <<"/">> \o name

WalkFiles ==
  UNION {{ChildRel(d, Listing(d)[i]) : i \in 1..Len(Listing(d))} : d \in WalkDirs \cup {RootRel}}
    \ WalkDirs

\* the documents whose frontmatter can give a title, and the title it gives
Titled == {<<"a", ".", "md">>, <<"d", "/", "a", ".", "md">>}
MetaTitle == <<"A">>

\* the directories: each is there with the one above it; the files: each is in
\* a directory that is there
ParentOf(rel) ==
  LET i == LastIndex(rel, "/") IN IF i = 0 THEN RootRel ELSE SubSeq(rel, 1, i - 1)

WalkShapes ==
  {[dirs |-> ds, files |-> fl] :
     ds \in {x \in SUBSET WalkDirs : \A d \in x : ParentOf(d) \in x \cup {RootRel}},
     fl \in SUBSET WalkFiles}

WalkInputs ==
  {[dirs |-> sh.dirs, files |-> sh.files, titled |-> tt] :
     sh \in {x \in WalkShapes : \A f \in x.files : ParentOf(f) \in x.dirs \cup {RootRel}},
     tt \in SUBSET Titled}

\* os.ReadDir: the entries of the directory that are there, in listing order
RECURSIVE Present(_, _, _)
Present(fs, rel, names) ==
  IF names = <<>> THEN <<>>
  ELSE LET here == ChildRel(rel, Head(names))
       IN IF here \in fs.dirs \/ here \in fs.files
            THEN <<Head(names)>> \o Present(fs, rel, Tail(names))
          ELSE Present(fs, rel, Tail(names))

ReadDir(fs, rel) == Present(fs, rel, Listing(rel))

\* filepath.Ext: from the last dot of the last element on
Ext(name) ==
  LET dot == LastIndex(name, ".")
  IN IF dot = 0 \/ dot < LastIndex(name, "/") THEN <<>> ELSE SubSeq(name, dot, Len(name))

\* strings.ReplaceAll(name, "_", " ")
Spaced(name) == [i \in 1..Len(name) |-> IF name[i] = "_" THEN " " ELSE name[i]]

fileDisplayName(name) ==
  TrimSpace(Spaced(SubSeq(name, 1, Len(name) - Len(Ext(name)))))

directoryDisplayName(rel) == IF rel = RootRel THEN Base(Root) ELSE fileDisplayName(rel)

\* the byte of a one-letter atom
Byte(a) ==
  CASE a = " " -> 32 [] a = "." -> 46 [] a = "/" -> 47 [] a = "A" -> 65 [] a = "B" -> 66
    [] a = "a" -> 97 [] a = "b" -> 98 [] a = "c" -> 99 [] a = "d" -> 100 [] a = "e" -> 101
    [] a = "h" -> 104 [] a = "r" -> 114 [] a = "s" -> 115 [] a = "x" -> 120 [] OTHER -> 86

\* strings.Compare: -1, 0 or 1 by the first byte that differs
RECURSIVE Compare(_, _)
Compare(x, y) ==
  IF x = <<>> /\ y = <<>> THEN 0
  ELSE IF x = <<>> THEN -1
  ELSE IF y = <<>> THEN 1
  ELSE IF Byte(Head(x)) < Byte(Head(y)) THEN -1
  ELSE IF Byte(Head(x)) > Byte(Head(y)) THEN 1
  ELSE Compare(Tail(x), Tail(y))

NodeTypeDirectory == "directory"
NodeTypeFile == "file"

\* the nil *Node
NoNode == [Type |-> "nil", Name |-> <<>>, RawName |-> <<>>, RelativePath |-> <<>>,
           Title |-> <<>>, Children |-> <<>>]

\* mutant: the children are ordered by title alone
lessByTitle(a, b) == Compare(a.Title, b.Title) < 0

\* the less function of buildDir's sort.SliceStable
less(a, b) ==
  IF a.Type = b.Type THEN Compare(a.Title, b.Title) < 0
  ELSE a.Type = NodeTypeDirectory

\* sort.SliceStable: each element is put before the first one it is less
\* than, so that elements neither of which is less keep their order
RECURSIVE InsertStable(_, _)
InsertStable(sorted, x) ==
  IF sorted = <<>> THEN <<x>>
  ELSE IF less(x, sorted[Len(sorted)]) THEN Append(InsertStable(Front(sorted), x), sorted[Len(sorted)])
  ELSE Append(sorted, x)

RECURSIVE SliceStable(_)
SliceStable(seq) ==
  IF seq = <<>> THEN <<>> ELSE InsertStable(SliceStable(Front(seq)), seq[Len(seq)])

buildFileNode(fs, rel) ==
  LET display == fileDisplayName(Base(rel))
  IN [Type |-> NodeTypeFile, Name |-> display, RawName |-> Base(rel),
      RelativePath |-> normalizeRelative(rel),
      Title |-> IF rel \in fs.titled THEN MetaTitle ELSE display,
      Children |-> <<>>]

\* buildDir and the loop over its entries
RECURSIVE buildDir(_, _, _)
RECURSIVE buildChildren(_, _, _, _)
buildChildren(fs, hidden, rel, entries) ==
  IF entries = <<>> THEN <<>>
  ELSE LET name == Head(entries)
           childRel == ChildRel(rel, name)
           rest == buildChildren(fs, hidden, rel, Tail(entries))
           childNode == buildDir(fs, hidden, childRel)
       IN IF ~hidden /\ IsHiddenName(name) THEN rest
          ELSE IF childRel \in fs.dirs
            THEN (IF isExcluded(name) THEN rest
                  ELSE IF childNode = NoNode THEN rest
                  ELSE <<childNode>> \o rest)
          ELSE IF ~isMarkdown(name) THEN rest
          ELSE <<buildFileNode(fs, childRel)>> \o rest

buildDir(fs, hidden, rel) ==
  LET children == buildChildren(fs, hidden, rel, ReadDir(fs, rel))
  IN IF children = <<>> /\ rel # RootRel THEN NoNode
     ELSE [Type |-> NodeTypeDirectory, Name |-> directoryDisplayName(rel),
           RawName |-> IF rel = RootRel THEN Base(Root) ELSE Base(rel),
           RelativePath |-> normalizeRelative(rel), Title |-> directoryDisplayName(rel),
           Children |-> SliceStable(children)]

\* no call of Build has been made
NoWalk == [fs |-> [dirs |-> {}, files |-> {}, titled |-> {}], hidden |-> FALSE,
           done |-> FALSE, node |-> NoNode]

\* ----------------------------------------------------------------- watcher
\* watchRecursive: the directories below dir that WalkDir reaches, a hidden
\* directory other than the root being skipped with all below it
Walked(hidden, dir, d) ==
  /\ d = dir \/ HasPrefix(d, dir \o <<"/">>)
  /\ \A a \in UpTo(d) \cup {dir} :
       (a = dir \/ HasPrefix(a, dir \o <<"/">>)) =>
         (hidden \/ ~IsHiddenName(Base(a)) \/ a = Root)

WalkedFrom ==
  [hidden \in BOOLEAN |-> [dir \in DirPaths |-> {d \in DirPaths : Walked(hidden, dir, d)}]]

\* mutant: no watch is added
watchNothing(ds, w, hidden, dir) == w

watchRecursive(ds, w, hidden, dir) == w \cup (ds \cap WalkedFrom[hidden][dir])

\* mutant: the name of the event is passed on as it came
relativePathOfName(abs) == abs

relativePath(abs) == ToSlash(Rel(Root, abs))

RelativeOf == [n \in Names |-> relativePath(n)]
MarkdownNames == {n \in Names : isMarkdownPath(n)}

eventTypeTreeUpdated == "treeUpdated"
eventTypeDeleted == "deleted"
eventTypePageUpdated == "pageUpdated"
eventTypeUnknown == "unknown"

\* mutant: a rename is looked for before a remove
classifyEventRenameFirst(exists, op, md) ==
  IF "Rename" \in op THEN eventTypeTreeUpdated
  ELSE IF "Remove" \in op
    THEN IF md THEN (IF exists THEN eventTypePageUpdated ELSE eventTypeDeleted)
         ELSE eventTypeTreeUpdated
  ELSE IF op \cap {"Write", "Create"} # {}
    THEN IF md THEN eventTypePageUpdated ELSE eventTypeTreeUpdated
  ELSE eventTypeUnknown

\* handleEvent is not between rebuildTree and broadcast, and broadcast has no
\* stale subscriber left to remove
NoPending == [on |-> FALSE, evt |-> [Type |-> "none", Path |-> <<>>], ok |-> FALSE, stale |-> {}]

\* the bits of fsnotify.Op
FsOps == {"Create", "Write", "Remove", "Rename", "Chmod"}

\* no event has been classified
NoClass == [Name |-> <<>>, Op |-> {}, type |-> "none", done |-> FALSE]

classifyEvent(exists, op, md) ==
  IF "Remove" \in op
    THEN IF md THEN (IF exists THEN eventTypePageUpdated ELSE eventTypeDeleted)
         ELSE eventTypeTreeUpdated
  ELSE IF "Rename" \in op THEN eventTypeTreeUpdated
  ELSE IF op \cap {"Write", "Create"} # {}
    THEN IF md THEN eventTypePageUpdated ELSE eventTypeTreeUpdated
  ELSE eventTypeUnknown

\* ------------------------------------------------------------- subscribers
QueueCap == 8
SubIds == 1..MaxSubs

NoSub == [reg |-> FALSE, done |-> FALSE, ch |-> <<>>, chClosed |-> FALSE, waiting |-> FALSE]

Registered == {id \in SubIds : subs[id].reg}

\* the select of broadcast has several ready cases for a subscriber whose
\* context, or the service's, is done and whose channel has room: Go picks one
MayBeStale(id) == subs[id].done \/ closed # "no"

\* mutant: a channel takes any number of events
HasRoomAlways(id) == TRUE

HasRoom(id) == Len(subs[id].ch) < QueueCap

\* mutant: the send waits for a subscriber whose channel is full, and no
\* subscriber is sent the event
broadcastWaiting(evt, stale) ==
  [id \in SubIds |->
     IF \E full \in SubIds : subs[full].reg /\ Len(subs[full].ch) >= QueueCap THEN subs[id]
     ELSE IF subs[id].reg THEN [subs[id] EXCEPT !.ch = Append(@, evt)]
     ELSE subs[id]]

\* mutant: the event goes to the front of the channel
broadcastAtFront(evt, stale) ==
  [id \in SubIds |->
     IF ~subs[id].reg THEN subs[id]
     ELSE IF id \in stale THEN [subs[id] EXCEPT !.reg = FALSE, !.chClosed = TRUE]
     ELSE IF Len(subs[id].ch) < QueueCap THEN [subs[id] EXCEPT !.ch = <<evt>> \o @]
     ELSE subs[id]]

\* broadcast: `stale` are the subscribers for which a Done case was picked
broadcast(evt, stale) ==
  [id \in SubIds |->
     IF ~subs[id].reg THEN subs[id]
     ELSE IF id \in stale THEN [subs[id] EXCEPT !.reg = FALSE, !.chClosed = TRUE]
     ELSE IF HasRoom(id) THEN [subs[id] EXCEPT !.ch = Append(@, evt)]
     ELSE subs[id]]

\* mutant: the channel is closed and the subscriber stays in the registry
detachKeepsEntry(sub) == [sub EXCEPT !.chClosed = TRUE]

\* close(sub.ch) and delete(s.subscribers, id), under the write lock
detach(sub) == [sub EXCEPT !.reg = FALSE, !.chClosed = TRUE]

\* the loop of broadcast, under the read lock: a subscriber for which a Done
\* case was picked is noted, any other is sent the event if its channel has room
broadcastSends(evt, stale) ==
  [id \in SubIds |->
     IF ~subs[id].reg \/ id \in stale THEN subs[id]
     ELSE IF HasRoom(id) THEN [subs[id] EXCEPT !.ch = Append(@, evt)]
     ELSE subs[id]]

StaleChoices ==
  {S \in SUBSET Registered :
     /\ \A id \in S : MayBeStale(id)
     /\ \A id \in Registered \ S : MayBeStale(id) => HasRoom(id)}

\* ----------------------------------------------------------------- service
Callers == 1..NumCallers
Mutations == {"Save", "Create", "Rename", "Delete"}

ErrMarkdownOnly == "markdown documents only"
ErrNotExist == "not found"
ErrExist == "already exists"
ErrIsDir == "is a directory"
ErrIO == "io"

NoCaller == [pc |-> "idle", op |-> "none", path |-> <<>>, path2 |-> <<>>, rel |-> <<>>,
             abs |-> <<>>, rel2 |-> <<>>, abs2 |-> <<>>, data |-> 0, err |-> ErrNone,
             doc |-> NoDoc]
NoLast == [op |-> "none", rel |-> <<>>, rel2 |-> <<>>, content |-> 0]

\* what has been broadcast, kept in the specifications that start with
\* history.on: the events in the order of their broadcast, and for each
\* subscriber the places in that order of the events waiting in its channel
\* and of the last one it has received, and how many events had been broadcast
\* when it subscribed
NoHistory == [on |-> FALSE, log |-> <<>>, queued |-> [id \in SubIds |-> <<>>],
              got |-> [id \in SubIds |-> 0], since |-> [id \in SubIds |-> 0]]

\* the history after the broadcast of evt has changed the channels: a channel
\* has been sent the event at its end or has been left alone; any other
\* change is recorded as place 0
Sent(evt, before, after) ==
  LET n == Len(history.log) + 1
  IN [history EXCEPT
        !.log = Append(@, evt),
        !.queued = [id \in SubIds |->
                      IF after[id].ch = before[id].ch THEN @[id]
                      ELSE IF after[id].ch = Append(before[id].ch, evt) THEN Append(@[id], n)
                      ELSE Append(@[id], 0)]]

\* ------------------------------------------------- the /events connection
\* no request for /events has arrived.  `flusher` is whether the response
\* writer is an http.Flusher, `sub` the subscription, `body` what has been
\* written, `flushed` how much of it has been flushed, `taken` the events
\* received from the channel
NoConn == [pc |-> "none", flusher |-> FALSE, sub |-> 0, status |-> 0, body |-> <<>>,
           flushed |-> 0, taken |-> <<>>, failed |-> FALSE]

\* ------------------------------------------------ the frontmatter metadata
\* the frontmatter goldmark-meta parsed: a Go map from keys to values.  A key
\* is absent or holds one of two strings or a number
MetaKeys == {"title", "description", "summary", "tags", "keywords"}
MetaStrings == {"s1", "s2"}
Absent == "absent"
NotAString == "number"
Frontmatters ==
  {fm \in [MetaKeys -> MetaStrings \cup {Absent, NotAString}] :
     /\ fm["title"] \in {Absent, "s1"}
     /\ \A k \in {"summary", "tags", "keywords"} : fm[k] # NotAString}

\* the orders in which a range over the map can visit its keys
KeyOrders == {o \in [1..Cardinality(MetaKeys) -> MetaKeys] : \A i, j \in DOMAIN o : o[i] = o[j] => i = j}

toString(v) == [ok |-> v \in MetaStrings, str |-> IF v \in MetaStrings THEN v ELSE ""]

\* toStringSlice of a value that is no list: the string alone, or nil
toStringSlice(v) == IF toString(v).ok THEN <<toString(v).str>> ELSE <<>>

NoMetadata == [Title |-> "", Description |-> "", Tags |-> <<>>]

\* the body of the loop of extractMetadata for the key k
extractKey(meta, k, v) ==
  CASE k = "title" -> IF toString(v).ok THEN [meta EXCEPT !.Title = toString(v).str] ELSE meta
    [] k \in {"description", "summary"} ->
         IF toString(v).ok THEN [meta EXCEPT !.Description = toString(v).str] ELSE meta
    [] k \in {"tags", "keywords"} -> [meta EXCEPT !.Tags = toStringSlice(v)]
    [] OTHER -> meta

\* extractMetadata: the loop over the map, which visits the keys the map holds
\* in the order `order`
RECURSIVE extractMetadata(_, _)
extractMetadata(raw, order) ==
  IF order = <<>> THEN NoMetadata
  ELSE LET k == order[Len(order)]
           before == extractMetadata(raw, SubSeq(order, 1, Len(order) - 1))
       IN IF raw[k] = Absent THEN before ELSE extractKey(before, k, raw[k])

\* no render of the two has extracted metadata
NoExtracted ==
  [g \in 1..2 |-> [done |-> FALSE, raw |-> [k \in MetaKeys |-> Absent], meta |-> NoMetadata]]

\* ------------------------------------------- the writers of the middleware
\* the http.ResponseWriter a handler is given, as the types that wrap it,
\* outermost first; the innermost is the *http.response of net/http
HttpResponse == <<"http.response">>

\* gzipMiddleware: a request that accepts gzip gets a gzipResponseWriter
gzipMiddleware(w, acceptsGzip) == IF acceptsGzip THEN <<"gzipResponseWriter">> \o w ELSE w

\* loggingMiddleware: with verbose logging the writer is put in a statusWriter
loggingMiddleware(w, verbose) == IF verbose THEN <<"statusWriter">> \o w ELSE w

\* w.(http.Flusher): the type of the writer has a method Flush.
\* *http.response and gzipResponseWriter have one; statusWriter has the
\* methods of the http.ResponseWriter it embeds and its own WriteHeader
IsFlusher(w) == w # <<>> /\ w[1] \in {"http.response", "gzipResponseWriter"}

\* the server has not been started, and no writer has reached the handler
NoWriter == [started |-> FALSE, verbose |-> FALSE, stack |-> <<>>]

\* ---------------------------------------------------- the CSRF middleware
\* no request has arrived, none has been answered
NoRequest == [Method |-> "", Path |-> <<>>, Origin |-> <<>>, Referer |-> <<>>, Host |-> <<>>]
NoResponse == [status |-> 0, body |-> "", next |-> FALSE]

HostLocalhost == <<"localhost">>
HostLoopback4 == <<"127.0.0.1">>
HostLoopback6 == <<"[", ":", ":", "1", "]">>

normalizeHost(host) ==
  LET idx == LastIndex(host, ":")
      h == IF idx # 0 THEN SubSeq(host, 1, idx - 1) ELSE host
  IN IF h = HostLocalhost \/ h = HostLoopback4 \/ h = HostLoopback6 THEN HostLocalhost
     ELSE ToLower(h)

\* url.Parse, of the header values of the model: an absolute http URL yields
\* the host and port between the scheme and the path, "%" is no URL, and a
\* value without a scheme ("null") is a path without a host
urlParse(raw) ==
  LET rest == Tail(raw)
      slash == IF \E i \in 1..Len(rest) : rest[i] = "/"
               THEN CHOOSE i \in 1..Len(rest) : rest[i] = "/" /\ \A j \in 1..(i - 1) : rest[j] # "/"
               ELSE Len(rest) + 1
  IN IF raw = <<"%">> THEN [err |-> TRUE, Host |-> <<>>]
     ELSE IF raw[1] = "http://" THEN [err |-> FALSE, Host |-> SubSeq(rest, 1, slash - 1)]
     ELSE [err |-> FALSE, Host |-> <<>>]

isValidOrigin(r) ==
  LET origin == IF r.Origin = <<>> THEN r.Referer ELSE r.Origin
      originURL == urlParse(origin)
  IN IF origin = <<>> THEN FALSE
     ELSE IF originURL.err THEN FALSE
     ELSE normalizeHost(originURL.Host) = normalizeHost(r.Host)

Forbidden == [status |-> 403, body |-> "Forbidden: Invalid origin", next |-> FALSE]
Served == [status |-> 0, body |-> "", next |-> TRUE]

\* csrfMiddleware: the request is passed to the next handler or answered 403
csrfMiddleware(r) ==
  IF r.Method \in {"GET", "HEAD", "OPTIONS"} THEN Served
  ELSE IF r.Path = <<"/", "healthz">> \/ HasPrefix(r.Path, <<"/", "static", "/">>) THEN Served
  ELSE IF ~isValidOrigin(r) THEN Forbidden
  ELSE Served


\* the paths callers pass, and what resolveDocumentPath makes of each
CallInputs == {<<"a">>, DocB, DocDC, DocH, DocV, NotesTxt, <<".", ".">>, <<".", ".", "/", "a">>,
               <<>>}
Resolved == [i \in CallInputs |-> resolveDocumentPath(i)]

\* the document a file of the model holds
RelOfFile == [f \in FilePaths |-> CHOOSE r \in RelPaths : AbsOf(r) = f]

\* the subscribers a write of the markdown file f leaves waiting for its
\* event: those registered with room in their channel, if the directory of f
\* is watched
Owing(f) ==
  [id \in SubIds |->
     IF subs[id].reg /\ HasRoom(id) /\ f \in MarkdownNames /\ DirOf[f] \in watched
     THEN owed[id] \cup {f} ELSE owed[id]]

\* the channel of a subscriber has just been sent the pageUpdated event of f
Delivered(before, after, f) ==
  /\ Len(after.ch) = Len(before.ch) + 1
  /\ after.ch[Len(after.ch)] = [Type |-> eventTypePageUpdated, Path |-> RelOfFile[f]]

Returned(c, e) == [callers[c] EXCEPT !.pc = "done", !.err = e, !.data = 0]

\* the state NewService leaves; `ok` is whether the initial build succeeds.
\* If it does the tree is built (which fills the cache), the root and the
\* directories below it are watched, and the watcher loop runs; if not,
\* NewService returns the error and no service ("failed")
NewService(fs, ds, hidden, ok) ==
  /\ files = fs
  /\ dirs = ds
  /\ clock = 1
  /\ includeHidden = hidden
  /\ cache = IF ok THEN Build(fs, EmptyCache, hidden).cache ELSE EmptyCache
  /\ tree = initTree(ok, Build(fs, EmptyCache, hidden).nodes)
  /\ rebuildOK = ok
  /\ watched = IF ok THEN watchRecursive(ds, {}, hidden, Root) ELSE {}
  /\ closed = IF ok THEN "no" ELSE "failed"
  /\ callers = [c \in Callers |-> NoCaller]
  /\ writeMu = 0
  /\ last = NoLast
  /\ rcall = NoCall
  /\ rprev = NoCall
  /\ pathOut = NotCalled
  /\ owed = [id \in SubIds |-> {}]
  /\ temps = NoTemps
  /\ request = NoRequest
  /\ response = NoResponse
  /\ conn = NoConn
  /\ walk = NoWalk
  /\ link = NoLink
  /\ classified = NoClass
  /\ pending = NoPending
  /\ renders = NoRenders
  /\ writer = NoWriter
  /\ extracted = NoExtracted

Started(fs, ds, hidden) == NewService(fs, ds, hidden, TRUE)

\* no event is waiting and nobody has subscribed
Constructed(fs, ds, hidden) ==
  /\ Started(fs, ds, hidden)
  /\ events = <<>>
  /\ subs = [id \in SubIds |-> NoSub]
  /\ subCounter = 0
  /\ history = NoHistory

\* Service.Document
Document(c, relPath) ==
  LET r == Resolved[relPath]
      rendered == Render(cache, r.rel, files[r.abs].mtime, files[r.abs].content)
      call == [NoCaller EXCEPT !.op = "Document", !.path = relPath, !.rel = r.rel,
                               !.abs = r.abs]
  IN /\ callers[c].pc \in {"idle", "done"}
     /\ IF r.err # ErrNone
          THEN /\ callers' = [callers EXCEPT ![c] = [call EXCEPT !.pc = "done", !.err = r.err]]
               /\ UNCHANGED cache
        ELSE IF r.abs \in dirs
          THEN /\ callers' = [callers EXCEPT ![c] = [call EXCEPT !.pc = "done", !.err = ErrIsDir]]
               /\ UNCHANGED cache
        ELSE IF r.abs \notin DOMAIN files \/ ~files[r.abs].exists
          THEN /\ callers' = [callers EXCEPT ![c] = [call EXCEPT !.pc = "done", !.err = ErrNotExist]]
               /\ UNCHANGED cache
        ELSE /\ callers' = [callers EXCEPT ![c] = [call EXCEPT !.pc = "done", !.doc = rendered.doc]]
             /\ cache' = rendered.cache
     /\ UNCHANGED <<pathVars, otherVars, callVars, fsVars, includeHidden, watchVars, tree, rebuildOK,
                    subVars, closed, writeMu, last, owed>>

\* the entry of SaveDocument, CreateDocument and DeleteDocument, up to the
\* request for the write mutex
Call(c, op, relPath, data) ==
  LET r == Resolved[relPath]
      call == [NoCaller EXCEPT !.op = op, !.path = relPath, !.rel = r.rel, !.abs = r.abs]
  IN /\ callers[c].pc \in {"idle", "done"}
     /\ callers' = [callers EXCEPT ![c] =
          IF r.err # ErrNone THEN [call EXCEPT !.pc = "done", !.err = r.err]
          ELSE IF ~isMarkdownPath(r.rel) THEN [call EXCEPT !.pc = "done", !.err = ErrMarkdownOnly]
          ELSE [call EXCEPT !.pc = "lock", !.data = data]]
     /\ UNCHANGED <<pathVars, otherVars, renderVars, fsVars, includeHidden, watchVars, tree, rebuildOK,
                    subVars, closed, writeMu, last, owed>>

\* the entry of RenameDocument
CallRename(c, fromPath, toPath) ==
  LET f == Resolved[fromPath]
      t == Resolved[toPath]
      call == [NoCaller EXCEPT !.op = "Rename", !.path = fromPath, !.path2 = toPath,
                               !.rel = f.rel, !.abs = f.abs, !.rel2 = t.rel, !.abs2 = t.abs]
  IN /\ callers[c].pc \in {"idle", "done"}
     /\ callers' = [callers EXCEPT ![c] =
          IF f.err # ErrNone THEN [call EXCEPT !.pc = "done", !.err = f.err]
          ELSE IF t.err # ErrNone THEN [call EXCEPT !.pc = "done", !.err = t.err]
          ELSE IF ~isMarkdownPath(f.rel) \/ ~isMarkdownPath(t.rel)
            THEN [call EXCEPT !.pc = "done", !.err = ErrMarkdownOnly]
          ELSE [call EXCEPT !.pc = "lock"]]
     /\ UNCHANGED <<pathVars, otherVars, renderVars, fsVars, includeHidden, watchVars, tree, rebuildOK,
                    subVars, closed, writeMu, last, owed>>

\* mutant: the mutex is taken without waiting for it
LockUnguarded(c) ==
  /\ callers[c].pc = "lock"
  /\ writeMu' = c
  /\ callers' = [callers EXCEPT ![c].pc = "stat"]
  /\ UNCHANGED <<pathVars, otherVars, renderVars, fsVars, includeHidden, watchVars, tree, rebuildOK,
                 subVars, closed, last, owed>>

\* s.writeMu.Lock()
Lock(c) ==
  /\ callers[c].pc = "lock"
  /\ writeMu = 0
  /\ writeMu' = c
  /\ callers' = [callers EXCEPT ![c].pc = "stat"]
  /\ UNCHANGED <<pathVars, otherVars, renderVars, fsVars, includeHidden, watchVars, tree, rebuildOK,
                 subVars, closed, last, owed>>

\* mutant: RenameDocument looks at its destination first
StatErrorDestinationFirst(op, fs, ds, abs, abs2) ==
  IF op \in {"Save", "Delete"}
    THEN (IF PathExists(fs, ds, abs) THEN ErrNone ELSE ErrNotExist)
  ELSE IF op = "Create"
    THEN (IF PathExists(fs, ds, abs) THEN ErrExist ELSE ErrNone)
  ELSE IF PathExists(fs, ds, abs2) THEN ErrExist
  ELSE IF ~PathExists(fs, ds, abs) THEN ErrNotExist
  ELSE ErrNone

\* the existence checks made under the mutex: the error they end the call
\* with, or ErrNone
StatError(op, fs, ds, abs, abs2) ==
  IF op \in {"Save", "Delete"}
    THEN (IF PathExists(fs, ds, abs) THEN ErrNone ELSE ErrNotExist)
  ELSE IF op = "Create"
    THEN (IF PathExists(fs, ds, abs) THEN ErrExist ELSE ErrNone)
  ELSE IF ~PathExists(fs, ds, abs) THEN ErrNotExist
  ELSE IF PathExists(fs, ds, abs2) THEN ErrExist
  ELSE ErrNone

Stat(c) ==
  LET e == StatError(callers[c].op, files, dirs, callers[c].abs, callers[c].abs2)
  IN /\ callers[c].pc = "stat"
     /\ IF e # ErrNone
          THEN /\ callers' = [callers EXCEPT ![c] = Returned(c, e)]
               /\ writeMu' = 0
          ELSE /\ callers' = [callers EXCEPT ![c].pc = "write"]
               /\ UNCHANGED writeMu
     /\ UNCHANGED <<pathVars, otherVars, renderVars, fsVars, includeHidden, watchVars, tree, rebuildOK,
                    subVars, closed, last, owed>>

\* the rest of SaveDocument and CreateDocument: MkdirAll, writeFileAtomic,
\* Invalidate, and the deferred Unlock
Write(c) ==
  LET me == callers[c]
      made == MkdirAll(dirs, watched, events, DirOf[me.abs])
      wrote == writeFileAtomic(files, watched, made.events, clock, me.abs, me.data)
  IN /\ me.pc = "write"
     /\ me.op \in {"Save", "Create"}
     /\ dirs' = made.dirs
     /\ files' = wrote.files
     /\ events' = wrote.events
     /\ Len(events') <= MaxEvents
     /\ cache' = Invalidate(cache, me.abs)
     /\ callers' = [callers EXCEPT ![c] = Returned(c, ErrNone)]
     /\ last' = [op |-> me.op, rel |-> me.rel, rel2 |-> <<>>, content |-> me.data]
     /\ owed' = Owing(me.abs)
     /\ writeMu' = 0
     /\ UNCHANGED <<pathVars, otherVars, callVars, clock, includeHidden, watched, tree, rebuildOK,
                    subVars, closed>>

\* the rest of RenameDocument: MkdirAll, os.Rename, Invalidate of both paths
Move(c) ==
  LET me == callers[c]
      made == MkdirAll(dirs, watched, events, DirOf[me.abs2])
  IN /\ me.pc = "write"
     /\ me.op = "Rename"
     /\ writeMu' = 0
     /\ IF files[me.abs].exists
          THEN /\ dirs' = made.dirs
               /\ files' = [files EXCEPT ![me.abs2] = files[me.abs], ![me.abs] = NoFile]
               /\ events' = RaiseAll(watched, made.events,
                                     << <<me.abs, "Rename">>, <<me.abs2, "Create">> >>)
               /\ cache' = Invalidate(Invalidate(cache, me.abs), me.abs2)
               /\ callers' = [callers EXCEPT ![c] = Returned(c, ErrNone)]
               /\ last' = [op |-> "Rename", rel |-> me.rel, rel2 |-> me.rel2,
                           content |-> files[me.abs].content]
               /\ owed' = Owing(me.abs2)
          ELSE /\ dirs' = made.dirs
               /\ events' = made.events
               /\ callers' = [callers EXCEPT ![c] = Returned(c, ErrIO)]
               /\ UNCHANGED <<files, cache, last, owed>>
     /\ Len(events') <= MaxEvents
     /\ UNCHANGED <<pathVars, otherVars, callVars, clock, includeHidden, watched, tree, rebuildOK,
                    subVars, closed>>

\* the rest of DeleteDocument: os.Remove, Invalidate
Remove(c) ==
  LET me == callers[c]
  IN /\ me.pc = "write"
     /\ me.op = "Delete"
     /\ writeMu' = 0
     /\ IF files[me.abs].exists
          THEN /\ files' = [files EXCEPT ![me.abs] = NoFile]
               /\ events' = Raise(watched, events, me.abs, "Remove")
               /\ cache' = Invalidate(cache, me.abs)
               /\ callers' = [callers EXCEPT ![c] = Returned(c, ErrNone)]
               /\ last' = [op |-> "Delete", rel |-> me.rel, rel2 |-> <<>>, content |-> 0]
          ELSE /\ callers' = [callers EXCEPT ![c] = Returned(c, ErrIO)]
               /\ UNCHANGED <<files, events, cache, last>>
     /\ Len(events') <= MaxEvents
     /\ UNCHANGED <<pathVars, otherVars, callVars, dirs, clock, includeHidden, watched, tree, rebuildOK,
                    subVars, closed, owed>>

\* SaveDocument and CreateDocument step by step -------------------------
\* mutant: the call gives up and the temp sibling stays
GiveUpKeepsTemp(c) ==
  /\ callers' = [callers EXCEPT ![c] = Returned(c, ErrIO)]
  /\ writeMu' = 0
  /\ UNCHANGED <<temps, events, files, cache, last, owed>>

\* the call gives up: the deferred os.Remove(tmpName), the error, the Unlock
GiveUp(c) ==
  /\ temps' = [temps EXCEPT ![c] = NoTemp]
  /\ events' = IF temps[c].exists THEN Raise(watched, events, temps[c].name, "Remove")
               ELSE events
  /\ callers' = [callers EXCEPT ![c] = Returned(c, ErrIO)]
  /\ writeMu' = 0
  /\ UNCHANGED <<files, cache, last, owed>>

\* MkdirAll and os.CreateTemp
CreateTemp(c, ok) ==
  LET me == callers[c]
      made == MkdirAll(dirs, watched, events, DirOf[me.abs])
      tp == createTemp(me.abs, me.data, clock)
  IN /\ me.pc = "write"
     /\ me.op \in {"Save", "Create"}
     /\ dirs' = made.dirs
     /\ IF ok
          THEN /\ temps' = [temps EXCEPT ![c] = tp]
               /\ events' = Raise(watched, made.events, tp.name, "Create")
               /\ callers' = [callers EXCEPT ![c].pc = "temp"]
               /\ UNCHANGED <<files, cache, last, owed, writeMu>>
          ELSE /\ events' = made.events
               /\ callers' = [callers EXCEPT ![c] = Returned(c, ErrIO)]
               /\ writeMu' = 0
               /\ UNCHANGED <<files, cache, last, owed, temps>>
     /\ Len(events') <= MaxEvents
     /\ UNCHANGED <<pathVars, history, request, response, conn, callVars, clock, includeHidden,
                    watched, tree, rebuildOK, subVars, closed>>

\* tmp.Write(data): one write of the data
WriteTemp(c, ok) ==
  LET me == callers[c]
      wrote == writeChunk(files, temps[c], me.abs, clock)
  IN /\ me.pc = "temp"
     /\ temps[c].chunks < NumChunks
     /\ IF ok
          THEN /\ files' = wrote.files
               /\ temps' = [temps EXCEPT ![c] = wrote.temp]
               /\ events' = Raise(watched, events, temps[c].name, "Write")
               /\ UNCHANGED <<callers, cache, last, owed, writeMu>>
          ELSE GiveUp(c)
     /\ Len(events') <= MaxEvents
     /\ UNCHANGED <<pathVars, history, request, response, conn, callVars, dirs, clock, includeHidden,
                    watched, tree, rebuildOK, subVars, closed>>

\* tmp.Sync(), tmp.Chmod(0o644), tmp.Close()
CloseTemp(c, ok) ==
  LET me == callers[c]
  IN /\ me.pc = "temp"
     /\ temps[c].chunks = NumChunks
     /\ IF ok
          THEN /\ events' = Raise(watched, events, temps[c].name, "Chmod")
               /\ callers' = [callers EXCEPT ![c].pc = "rename"]
               /\ UNCHANGED <<files, temps, cache, last, owed, writeMu>>
          ELSE GiveUp(c)
     /\ Len(events') <= MaxEvents
     /\ UNCHANGED <<pathVars, history, request, response, conn, callVars, dirs, clock, includeHidden,
                    watched, tree, rebuildOK, subVars, closed>>

\* os.Rename(tmpName, target), Invalidate, and the deferred Unlock
RenameTemp(c, ok) ==
  LET me == callers[c]
  IN /\ me.pc = "rename"
     /\ IF ok
          THEN /\ files' = renameTemp(files, temps[c], me.abs)
               /\ temps' = [temps EXCEPT ![c] = NoTemp]
               /\ events' = RaiseAll(watched, events,
                                     << <<temps[c].name, "Rename">>, <<me.abs, "Create">> >>)
               /\ cache' = Invalidate(cache, me.abs)
               /\ callers' = [callers EXCEPT ![c] = Returned(c, ErrNone)]
               /\ last' = [op |-> me.op, rel |-> me.rel, rel2 |-> <<>>, content |-> me.data]
               /\ owed' = Owing(me.abs)
               /\ writeMu' = 0
          ELSE GiveUp(c)
     /\ Len(events') <= MaxEvents
     /\ UNCHANGED <<pathVars, history, request, response, conn, callVars, dirs, clock, includeHidden,
                    watched, tree, rebuildOK, subVars, closed>>

\* the process stops: no call takes another step, no event is handled
Stop ==
  /\ closed = "no"
  /\ closed' = "closed"
  /\ callers' = [c \in Callers |-> [callers[c] EXCEPT !.pc = "stopped"]]
  /\ watched' = {}
  /\ events' = <<>>
  /\ UNCHANGED <<pathVars, otherVars, renderVars, fsVars, includeHidden, tree, rebuildOK,
                 subVars, writeMu, last, owed>>

\* another program writes the file (os.WriteFile)
ExtWrite(f, data) ==
  /\ DirOf[f] \in dirs
  /\ files' = [files EXCEPT ![f] = [exists |-> TRUE, content |-> data, mtime |-> clock]]
  /\ events' = IF files[f].exists THEN Raise(watched, events, f, "Write")
               ELSE RaiseAll(watched, events, << <<f, "Create">>, <<f, "Write">> >>)
  /\ Len(events') <= MaxEvents
  /\ last' = NoLast
  /\ owed' = Owing(f)
  /\ UNCHANGED <<pathVars, otherVars, renderVars, dirs, clock, includeHidden, watched, tree, rebuildOK,
                 subVars, closed, callers, writeMu>>

\* another program removes the file
ExtRemove(f) ==
  /\ files[f].exists
  /\ files' = [files EXCEPT ![f] = NoFile]
  /\ events' = Raise(watched, events, f, "Remove")
  /\ Len(events') <= MaxEvents
  /\ last' = NoLast
  /\ UNCHANGED <<pathVars, otherVars, renderVars, dirs, clock, includeHidden, watched, tree, rebuildOK,
                 subVars, closed, callers, writeMu, owed>>

\* the filesystem's clock reaches its next tick
Tick ==
  /\ clock < MaxClock
  /\ clock' = clock + 1
  /\ UNCHANGED <<pathVars, otherVars, renderVars, files, dirs, includeHidden, watchVars, tree, rebuildOK,
                 subVars, closed, callers, writeMu, last, owed>>

\* one turn of runWatcher: handleEvent on the next raw event, with rebuildTree
\* and broadcast; `ok` is whether the build succeeds, `stale` the choice of the
\* selects in broadcast
HandleEvent(ok, stale) ==
  LET event == Head(events)
      rel == RelativeOf[event.Name]
      md == event.Name \in MarkdownNames
      c1 == IF md /\ event.Op \cap {"Create", "Write", "Remove", "Rename"} # {}
            THEN Invalidate(cache, event.Name) ELSE cache
      w1 == IF "Create" \in event.Op /\ event.Name \in dirs
            THEN watchRecursive(dirs, watched, includeHidden, event.Name) ELSE watched
      eventType == classifyEvent(PathExists(files, dirs, event.Name), event.Op, md)
      built == Build(files, c1, includeHidden)
  IN /\ events # <<>>
     /\ closed # "closed"
     /\ closed = "cancelled" => ~ok
     /\ stale \in StaleChoices
     /\ events' = Tail(events)
     /\ watched' = w1
     /\ rebuildOK' = ok
     /\ tree' = rebuildTree(ok, tree, built.nodes)
     /\ cache' = IF ok THEN built.cache ELSE c1
     /\ subs' = IF ~ok /\ eventType \in {eventTypeTreeUpdated, eventTypeDeleted}
                THEN subs
                ELSE broadcast([Type |-> eventType, Path |-> rel], stale)
     /\ owed' = [id \in SubIds |-> {f \in owed[id] : ~Delivered(subs[id], subs'[id], f)}]
     /\ history' = IF ~history.on \/ (~ok /\ eventType \in {eventTypeTreeUpdated, eventTypeDeleted})
                   THEN history
                   ELSE Sent([Type |-> eventType, Path |-> rel], subs, subs')
     /\ UNCHANGED <<pathVars, temps, request, response, conn, callVars, fsVars, includeHidden, subCounter, closed, callers,
                    writeMu, last>>

\* the turn of runWatcher in its two halves, for the order of what they make
\* visible.  handleEvent up to the test of rebuildOK: the cache entry is
\* invalidated, a new directory watched, the event classified and the tree
\* rebuilt; a treeUpdated or deleted event of a failed rebuild ends the turn
HandleEventRebuild(ok) ==
  LET event == Head(events)
      md == event.Name \in MarkdownNames
      c1 == IF md /\ event.Op \cap {"Create", "Write", "Remove", "Rename"} # {}
            THEN Invalidate(cache, event.Name) ELSE cache
      w1 == IF "Create" \in event.Op /\ event.Name \in dirs
            THEN watchRecursive(dirs, watched, includeHidden, event.Name) ELSE watched
      eventType == classifyEvent(PathExists(files, dirs, event.Name), event.Op, md)
      built == Build(files, c1, includeHidden)
  IN /\ events # <<>>
     /\ pending = NoPending
     /\ closed # "closed"
     /\ closed = "cancelled" => ~ok
     /\ events' = Tail(events)
     /\ watched' = w1
     /\ rebuildOK' = ok
     /\ tree' = rebuildTree(ok, tree, built.nodes)
     /\ cache' = IF ok THEN built.cache ELSE c1
     /\ pending' = IF ~ok /\ eventType \in {eventTypeTreeUpdated, eventTypeDeleted}
                   THEN NoPending
                   ELSE [on |-> TRUE, evt |-> [Type |-> eventType, Path |-> RelativeOf[event.Name]],
                         ok |-> ok, stale |-> {}]
     /\ UNCHANGED <<pathIn, pathOut, walk, link, classified, renders, writer, extracted, otherVars, callVars, fsVars,
                    includeHidden, subVars, closed, callers, writeMu, last, owed>>

\* the rest of handleEvent: the broadcast of the event
HandleEventBroadcast(stale) ==
  /\ pending.on
  /\ stale \in StaleChoices
  /\ subs' = broadcast(pending.evt, stale)
  /\ pending' = NoPending
  /\ owed' = [id \in SubIds |-> {f \in owed[id] : ~Delivered(subs[id], subs'[id], f)}]
  /\ history' = IF history.on THEN Sent(pending.evt, subs, subs') ELSE history
  /\ UNCHANGED <<pathIn, pathOut, walk, link, classified, renders, writer, extracted, temps, request, response, conn,
                 renderVars, fsVars, includeHidden, watchVars, tree, rebuildOK, subCounter,
                 closed, callers, writeMu, last>>

\* broadcast in its steps, for what runs between them.  The loop over the
\* subscribers, from RLock to RUnlock
BroadcastSends(stale) ==
  /\ pending.on
  /\ stale \in StaleChoices
  /\ subs' = broadcastSends(pending.evt, stale)
  /\ pending' = [NoPending EXCEPT !.stale = stale]
  /\ owed' = [id \in SubIds |-> {f \in owed[id] : ~Delivered(subs[id], subs'[id], f)}]
  /\ history' = IF history.on THEN Sent(pending.evt, subs, subs') ELSE history
  /\ UNCHANGED <<pathIn, pathOut, walk, link, classified, renders, writer, extracted, temps, request, response,
                 conn, renderVars, fsVars, includeHidden, watchVars, tree, rebuildOK, subCounter,
                 closed, callers, writeMu, last>>

\* removeSubscriber, called by broadcast for a subscriber it noted as stale:
\* the subscriber is detached if it is still in the registry
removeSubscriber(id) ==
  /\ id \in pending.stale
  /\ subs' = [subs EXCEPT ![id] = IF subs[id].reg THEN detach(@) ELSE @]
  /\ pending' = [pending EXCEPT !.stale = @ \ {id}]
  /\ UNCHANGED <<pathIn, pathOut, walk, link, classified, renders, writer, extracted, otherVars, renderVars, fsVars,
                 includeHidden, watchVars, tree, rebuildOK, subCounter, closed, callers, writeMu,
                 last, owed>>

\* Service.Subscribe: the subscriber is registered and its goroutine started
NewSubscriber ==
  /\ subCounter < MaxSubs
  /\ subCounter' = subCounter + 1
  /\ subs' = [subs EXCEPT ![subCounter + 1] = [NoSub EXCEPT !.reg = TRUE, !.waiting = TRUE]]
  /\ history' = IF history.on
                THEN [history EXCEPT !.since[subCounter + 1] = Len(history.log)]
                ELSE history

\* a call of Subscribe by a client that is not a /events connection
Subscribe ==
  /\ NewSubscriber
  /\ UNCHANGED <<pathVars, temps, request, response, conn, renderVars, fsVars, includeHidden, watchVars, tree, rebuildOK,
                 closed, callers, writeMu, last, owed>>

\* the subscriber's context is cancelled (the client went away)
Cancel(id) ==
  /\ subs[id].waiting \/ subs[id].reg
  /\ ~subs[id].done
  /\ subs' = [subs EXCEPT ![id].done = TRUE]
  /\ UNCHANGED <<pathVars, otherVars, renderVars, fsVars, includeHidden, watchVars, tree, rebuildOK,
                 subCounter, closed, callers, writeMu, last, owed>>

\* mutant: the goroutine of Subscribe ends without a look at the registry
CleanupNothing(id) ==
  /\ subs[id].waiting
  /\ subs[id].done \/ closed # "no"
  /\ subs' = [subs EXCEPT ![id].waiting = FALSE]
  /\ UNCHANGED <<pathVars, otherVars, renderVars, fsVars, includeHidden, watchVars, tree,
                 rebuildOK, subCounter, closed, callers, writeMu, last, owed>>

\* the goroutine of Subscribe, once either context is done
Cleanup(id) ==
  /\ subs[id].waiting
  /\ subs[id].done \/ closed # "no"
  /\ subs' = [subs EXCEPT ![id] =
       IF subs[id].reg THEN [detach(@) EXCEPT !.waiting = FALSE]
       ELSE [@ EXCEPT !.waiting = FALSE]]
  /\ UNCHANGED <<pathVars, otherVars, renderVars, fsVars, includeHidden, watchVars, tree, rebuildOK,
                 subCounter, closed, callers, writeMu, last, owed>>

\* a receive from the channel: the next event leaves it
TakeEvent(id) ==
  /\ subs[id].ch # <<>>
  /\ subs' = [subs EXCEPT ![id].ch = Tail(@)]
  /\ history' = IF history.on
                THEN [history EXCEPT
                        !.got[id] = IF history.queued[id] = <<>> THEN 0
                                    ELSE Head(history.queued[id]),
                        !.queued[id] = IF @ = <<>> THEN @ ELSE Tail(@)]
                ELSE history

\* the reader of the channel takes the next event
Receive(id) ==
  /\ TakeEvent(id)
  /\ UNCHANGED <<pathVars, temps, request, response, conn, renderVars, fsVars, includeHidden, watchVars, tree, rebuildOK,
                 subCounter, closed, callers, writeMu, last, owed>>

\* Service.Close, first half: s.cancel()
CancelService ==
  /\ closed = "no"
  /\ closed' = "cancelled"
  /\ UNCHANGED <<pathVars, otherVars, renderVars, fsVars, includeHidden, watchVars, tree, rebuildOK,
                 subVars, callers, writeMu, last, owed>>

\* Service.Close, second half: s.watcher.Close()
CloseWatcher ==
  /\ closed = "cancelled"
  /\ closed' = "closed"
  /\ watched' = {}
  /\ events' = <<>>
  /\ UNCHANGED <<pathVars, otherVars, renderVars, fsVars, includeHidden, tree, rebuildOK,
                 subVars, callers, writeMu, last, owed>>

\* ------------------------------------------------------ the /events handler
\* http.ResponseWriter.WriteHeader: the first status written is the status of
\* the response, a later one is ignored
WriteHeader(w, code) == IF w.status = 0 THEN [w EXCEPT !.status = code] ELSE w

\* encodeJSON of an Event: the fields under their JSON names
encodeJSON(evt) == [type |-> evt.Type, path |-> evt.Path]

\* what the handler writes: the comment ": ready\n\n", the record
\* "data: <json>\n\n", and the line http.Error writes
Ready == [field |-> ":", payload |-> [type |-> "ready", path |-> <<>>]]
Data(evt) == [field |-> "data:", payload |-> encodeJSON(evt)]
NotSupported == [field |-> "", payload |-> [type |-> "streaming not supported", path |-> <<>>]]

\* mutant: what is written is put before what was written
sseWriteFirst(body, rec) == <<rec>> \o body

\* w.Write / fmt.Fprintf(w, ...): the bytes follow those written before
sseWrite(body, rec) == Append(body, rec)

\* handleEvents up to the call of Subscribe: the headers and the status, the
\* test for an http.Flusher, and the subscription with the request's context
handleEventsServe(flusher) ==
  LET w == WriteHeader(conn, 200)
  IN /\ conn.pc = "none"
     /\ closed = "no"
     /\ IF ~flusher
          THEN /\ conn' = [WriteHeader(w, 500) EXCEPT !.pc = "returned",
                                                     !.body = sseWrite(@, NotSupported)]
               /\ UNCHANGED <<subs, subCounter, history>>
          ELSE /\ conn' = [w EXCEPT !.pc = "subscribed", !.flusher = TRUE, !.sub = subCounter + 1]
               /\ NewSubscriber
     /\ UNCHANGED <<pathIn, pathOut, walk, link, classified, pending, renders, extracted, temps, request,
                    response, renderVars, fsVars, includeHidden, watchVars, tree, rebuildOK,
                    closed, callers, writeMu, last, owed>>

\* the handler with a writer that is or is not an http.Flusher, whatever the
\* middleware before it
handleEventsOpen(flusher) == handleEventsServe(flusher) /\ UNCHANGED writer

\* Server.Start: the middleware chain is built with the Verbose of the
\* configuration
Start(verbose) ==
  /\ writer = NoWriter
  /\ writer' = [started |-> TRUE, verbose |-> verbose, stack |-> <<>>]
  /\ UNCHANGED <<pathIn, pathOut, walk, link, classified, pending, renders, extracted, renderVars, svcVars>>

\* a request for /events goes through gzipMiddleware and loggingMiddleware
\* to handleEvents, which gets the writer they made
ServeEvents(acceptsGzip) ==
  LET w == loggingMiddleware(gzipMiddleware(HttpResponse, acceptsGzip), writer.verbose)
  IN /\ writer.started
     /\ writer' = [writer EXCEPT !.stack = w]
     /\ handleEventsServe(IsFlusher(w))

\* the handler has returned or goes on: the rest of the state stays
ConnOnly ==
  UNCHANGED <<pathVars, temps, history, request, response, renderVars, fsVars, includeHidden,
              watchVars, tree, rebuildOK, subs, subCounter, closed, callers, writeMu, last,
              owed>>

\* w.Write([]byte(": ready\n\n")) and the flush; `ok` is whether the write
\* succeeds
handleEventsReady(ok) ==
  /\ conn.pc = "subscribed"
  /\ conn' = IF ok
             THEN [conn EXCEPT !.pc = "streaming", !.body = sseWrite(@, Ready),
                               !.flushed = Len(conn.body) + 1]
             ELSE [conn EXCEPT !.pc = "returned", !.failed = TRUE]
  /\ ConnOnly

\* the select of the loop takes case <-ctx.Done()
handleEventsDone ==
  /\ conn.pc = "streaming"
  /\ subs[conn.sub].done
  /\ conn' = [conn EXCEPT !.pc = "returned"]
  /\ ConnOnly

\* the select takes the receive, and the channel is closed and empty
handleEventsClosed ==
  /\ conn.pc = "streaming"
  /\ subs[conn.sub].chClosed
  /\ subs[conn.sub].ch = <<>>
  /\ conn' = [conn EXCEPT !.pc = "returned"]
  /\ ConnOnly

\* the select takes the receive of an event, which is encoded, written and
\* flushed; `ok` is whether the write succeeds
handleEventsSend(ok) ==
  LET evt == Head(subs[conn.sub].ch)
  IN /\ conn.pc = "streaming"
     /\ TakeEvent(conn.sub)
     /\ conn' = IF ok
                THEN [conn EXCEPT !.taken = Append(@, evt), !.body = sseWrite(@, Data(evt)),
                                  !.flushed = Len(conn.body) + 1]
                ELSE [conn EXCEPT !.taken = Append(@, evt), !.pc = "returned", !.failed = TRUE]
     /\ UNCHANGED <<pathVars, temps, request, response, renderVars, fsVars, includeHidden,
                    watchVars, tree, rebuildOK, subCounter, closed, callers, writeMu, last,
                    owed>>

\* ------------------------------------------------------- the page handlers
\* respondJSON: the status, then the body
respondJSON(w, status, body) == [WriteHeader(w, status) EXCEPT !.body = body]

errPathRequired == "path is required"
errInvalidPathEncoding == "invalid path encoding"

\* url.PathUnescape, on the atoms that hold a "%": "%2F", "%20" and "%25" are
\* decoded, a "%" that no two hex digits follow is an error
UnescapeAtom(a) ==
  CASE a = "%2F" -> "/" [] a = "%20" -> " " [] a = "%25" -> "%" [] OTHER -> a
PathUnescape(s) ==
  IF \E i \in 1..Len(s) : s[i] = "%" THEN [err |-> TRUE, path |-> <<>>]
  ELSE [err |-> FALSE, path |-> [i \in 1..Len(s) |-> UnescapeAtom(s[i])]]

\* r.PathValue("path"): the rest of the URL path as the mux hands it over,
\* unescaped (an escape the mux cannot decode is left as it is)
PathValue(raw) == IF PathUnescape(raw).err THEN raw ELSE PathUnescape(raw).path

parseWildcardPath(raw) ==
  LET trimmed == TrimSpace(raw)
      decoded == PathUnescape(trimmed)
      path == TrimSpace(decoded.path)
  IN IF trimmed = <<>> THEN [err |-> errPathRequired, path |-> <<>>]
     ELSE IF decoded.err THEN [err |-> errInvalidPathEncoding, path |-> <<>>]
     ELSE IF path = <<>> THEN [err |-> errPathRequired, path |-> <<>>]
     ELSE [err |-> ErrNone, path |-> path]

\* respondPathError: 400 whatever the error
respondPathError(w, err) == respondJSON(w, 400, err)

\* the status each page handler gives the error of its content-service call:
\* handlePage, handleSavePage and handleDeletePage test for os.ErrNotExist,
\* handleCreatePage for os.ErrExist and os.ErrNotExist, handleRenamePage for
\* os.ErrNotExist and os.ErrExist; any other error is a 500
pageStatus(op, err) ==
  IF op \in {"Document", "Save", "Delete"}
    THEN (IF err = ErrNone THEN 200 ELSE IF err = ErrNotExist THEN 404 ELSE 500)
  ELSE IF op = "Create"
    THEN (IF err = ErrNone THEN 201
          ELSE IF err = ErrExist THEN 409
          ELSE IF err = ErrNotExist THEN 400
          ELSE 500)
  ELSE (IF err = ErrNone THEN 200
        ELSE IF err = ErrNotExist THEN 404
        ELSE IF err = ErrExist THEN 409
        ELSE 500)

\* the message of a response that reports success
pageMessage(op) ==
  CASE op = "Save" -> "saved" [] op = "Create" -> "created" [] op = "Rename" -> "renamed"
    [] op = "Delete" -> "deleted" [] OTHER -> "html"

\* a handler answers before it has called the content service
Answer(c, w) ==
  /\ callers[c].pc = "idle"
  /\ response' = w
  /\ UNCHANGED <<pathVars, renderVars, fsVars, includeHidden, watchVars, tree, rebuildOK,
                 subVars, closed, callers, writeMu, last, owed, temps, history, request, conn>>

\* handlePage (GET /api/page/{path...}, without HX-Request), handleSavePage
\* (PUT), handleDeletePage (DELETE) and handleCreatePage (POST /api/page), the
\* last three with a well-formed JSON payload: `op` is the content-service
\* call of the handler the mux routes to, `raw` the path in the URL or, for a
\* create, in the payload (trimmed, and an empty one answered 400)
pageHandler(c, op, raw, data) ==
  LET p == IF op = "Create"
           THEN (IF TrimSpace(raw) = <<>> THEN [err |-> errPathRequired, path |-> <<>>]
                 ELSE [err |-> ErrNone, path |-> TrimSpace(raw)])
           ELSE parseWildcardPath(PathValue(raw))
  IN /\ callers[c].pc = "idle"
     /\ IF p.err # ErrNone THEN Answer(c, respondPathError(NoResponse, p.err))
        ELSE IF op = "Document" THEN Document(c, p.path)
        ELSE Call(c, op, p.path, data)

\* handleRenamePage (POST /api/page/rename), with a well-formed JSON payload
handleRenamePage(c, payloadFrom, payloadTo) ==
  LET from == TrimSpace(payloadFrom)
      to == TrimSpace(payloadTo)
  IN /\ callers[c].pc = "idle"
     /\ IF from = <<>> \/ to = <<>>
          THEN Answer(c, respondJSON(NoResponse, 400, "from and to paths are required"))
        ELSE IF from = to
          THEN Answer(c, respondJSON(NoResponse, 400, "destination path must differ from source"))
        ELSE CallRename(c, from, to)

\* the rest of a page handler, once its content-service call has returned:
\* the status for the error, and the error or the message as the body
Respond(c) ==
  LET me == callers[c]
  IN /\ me.pc = "done"
     /\ response' = respondJSON(NoResponse, pageStatus(me.op, me.err),
                                IF me.err = ErrNone THEN pageMessage(me.op) ELSE me.err)
     /\ callers' = [callers EXCEPT ![c] = NoCaller]
     /\ UNCHANGED <<pathVars, renderVars, fsVars, includeHidden, watchVars, tree, rebuildOK,
                    subVars, closed, writeMu, last, owed, temps, history, request, conn>>

\* ------------------------------------------------------------ the page route
\* renderTemplate: the status 200, then the template; if the template fails
\* http.Error writes its line, and its status is ignored
renderTemplate(w, name, ok) ==
  LET w1 == WriteHeader(w, 200)
  IN IF ok THEN [w1 EXCEPT !.body = name]
     ELSE [WriteHeader(w1, 500) EXCEPT !.body = "failed to render template"]

\* http.Error
httpError(w, msg, code) == [WriteHeader(w, code) EXCEPT !.body = msg]

LayoutPage == "layout with the document"
LayoutMissing == "layout with the missing-document page"

\* handlePageRoute (GET /page/{path...}) up to the return of Document
handlePageRoute(c, raw) ==
  LET p == parseWildcardPath(PathValue(raw))
  IN /\ callers[c].pc = "idle"
     /\ IF p.err # ErrNone THEN Answer(c, respondPathError(NoResponse, p.err))
        ELSE IF tree = NilTree
          THEN Answer(c, httpError(NoResponse, "failed to load content tree", 500))
        ELSE Document(c, p.path)

\* the rest of handlePageRoute: an error other than os.ErrNotExist is a 500,
\* else the layout is rendered, with the document or with the page for a
\* missing one; `ok` is whether the template renders
respondPageRoute(c, ok) ==
  LET me == callers[c]
  IN /\ me.pc = "done"
     /\ me.op = "Document"
     /\ response' = IF me.err \notin {ErrNone, ErrNotExist}
                    THEN httpError(NoResponse, "failed to load page", 500)
                    ELSE renderTemplate(NoResponse,
                                        IF me.err = ErrNone THEN LayoutPage ELSE LayoutMissing, ok)
     /\ callers' = [callers EXCEPT ![c] = NoCaller]
     /\ UNCHANGED <<pathVars, renderVars, fsVars, includeHidden, watchVars, tree, rebuildOK,
                    subVars, closed, writeMu, last, owed, temps, history, request, conn>>

\* tree.Build(ctx, root, opts) with opts.IncludeHidden = hidden, on a root
\* that holds the directory `in`
BuildTree(in, hidden) ==
  /\ ~walk.done
  /\ in.titled \subseteq in.files
  /\ walk' = [fs |-> in, hidden |-> hidden, done |-> TRUE, node |-> buildDir(in, hidden, RootRel)]
  /\ UNCHANGED <<pathIn, pathOut, link, classified, pending, renders, writer, extracted, renderVars, svcVars>>

\* linkTransformer.Transform on a link of the document at `doc`
TransformLink(doc, dest) ==
  /\ ~link.done
  /\ link' = [doc |-> doc, dest |-> dest, out |-> transformLink(dest, Dir(doc)), done |-> TRUE]
  /\ UNCHANGED <<pathIn, pathOut, walk, classified, pending, renders, writer, extracted, renderVars, svcVars>>

\* the call of classifyEvent in handleEvent, on a raw event of any op bits
ClassifyEvent(name, op) ==
  /\ ~classified.done
  /\ classified' = [Name |-> name, Op |-> op, done |-> TRUE,
                    type |-> classifyEvent(PathExists(files, dirs, name), op, isMarkdownPath(name))]
  /\ UNCHANGED <<pathIn, pathOut, walk, link, pending, renders, writer, extracted, renderVars, svcVars>>

\* Render in its steps, for goroutines that call it at the same time.  Up to
\* the conversion: the cache is looked up, and on a miss the markdown is
\* converted and the document made
RenderLoad(g, path, modTime, content) ==
  LET doc == [HTML |-> Convert(path, content), Modified |-> modTime, Raw |-> content]
      hit == CacheHit(cache, path, modTime)
  IN /\ renders[g].op \in {"idle", "returned"}
     /\ renders' = [renders EXCEPT ![g] =
                      [op |-> IF hit THEN "returned" ELSE "converted", path |-> path,
                       modTime |-> modTime, content |-> content, loaded |-> cache[path],
                       doc |-> IF hit THEN cache[path].doc ELSE doc, converted |-> ~hit]]
     /\ UNCHANGED <<pathIn, pathOut, walk, link, classified, pending, writer, extracted, renderVars, svcVars>>

\* the rest of Render on a miss: the entry is stored and the document returned
RenderStore(g) ==
  /\ renders[g].op = "converted"
  /\ cache' = cacheStore(cache, renders[g].path, renders[g].modTime, renders[g].doc)
  /\ renders' = [renders EXCEPT ![g].op = "returned"]
  /\ UNCHANGED <<pathIn, pathOut, walk, link, classified, pending, writer, extracted, callVars, svcVars>>

\* Invalidate while calls of Render are under way
RenderInvalidate(path) ==
  /\ cache[path].present
  /\ cache' = Invalidate(cache, path)
  /\ UNCHANGED <<pathVars, callVars, svcVars>>

\* ------------------------------------------- calls on the renderer alone
RenderKeys == {DocA, DocB}

RenderCall(path, modTime, content) ==
  LET r == Render(cache, path, modTime, content)
  IN /\ cache' = r.cache
     /\ rcall' = [op |-> "Render", path |-> path, modTime |-> modTime, content |-> content,
                  loaded |-> cache[path], doc |-> r.doc, converted |-> r.converted]
     /\ rprev' = rcall
     /\ UNCHANGED <<pathVars, otherVars, svcVars>>

InvalidateCall(path) ==
  /\ cache' = Invalidate(cache, path)
  /\ rcall' = [NoCall EXCEPT !.op = "Invalidate", !.path = path]
  /\ rprev' = rcall
  /\ UNCHANGED <<pathVars, otherVars, svcVars>>

RenderInit == Constructed(NoFiles, {Root}, FALSE) /\ pathIn = <<>>

RenderNext ==
  \/ \E p \in RenderKeys, t \in Times, c \in Contents : RenderCall(p, t, c)
  \/ \E p \in RenderKeys : InvalidateCall(p)

RenderSpec == RenderInit /\ [][RenderNext]_vars

\* ------------------------------------------------------- path validation
NamedInputs ==
  { <<".", ".">>,
    <<".", ".", "/", "a">>,
    <<"/", "a">>,
    <<"a", "/", ".", ".", "/", ".", ".", "/", "a">>,
    <<>> }

PathInputs == Str(MaxPathLen) \cup NamedInputs

PathInit ==
  \E p \in PathInputs :
    /\ Constructed(NoFiles, {Root}, FALSE)
    /\ pathIn = p

Resolve ==
  /\ pathOut = NotCalled
  /\ pathOut' = resolveDocumentPath(pathIn)
  /\ UNCHANGED <<pathIn, walk, link, classified, pending, renders, writer, extracted, renderVars, svcVars>>

PathNext == Resolve

PathSpec == PathInit /\ [][PathNext]_vars

\* ------------------------------------------------- documents and mutations
\* one caller at a time reads and changes two documents of the root, named
\* with and without their extension, while the watcher handles what it sees
DocInputs == {<<"a">>, DocB}

InitialFiles(present) ==
  [f \in FilePaths |->
     IF f \in present THEN [exists |-> TRUE, content |-> 1, mtime |-> 1] ELSE NoFile]

Init ==
  /\ \E present \in SUBSET {AbsOf(DocA)} : Constructed(InitialFiles(present), {Root}, FALSE)
  /\ pathIn = <<>>

Mutate(c) ==
  \/ \E op \in {"Save", "Create", "Delete"}, p \in DocInputs, d \in Contents : Call(c, op, p, d)
  \/ \E p \in DocInputs, q \in DocInputs : CallRename(c, p, q)
  \/ Lock(c)
  \/ Stat(c)
  \/ Write(c)
  \/ Move(c)
  \/ Remove(c)

Next ==
  \/ \E p \in DocInputs : Document(1, p)
  \/ Mutate(1)
  \/ Tick
  \/ HandleEvent(TRUE, {})

Spec == Init /\ [][Next]_vars

\* ------------------------------------------------------ concurrent callers
\* every caller makes one call of a mutation, on a.md (absent at the start)
\* or b.md (present), under every interleaving of their steps
ConcInit ==
  /\ Constructed(InitialFiles({AbsOf(DocB)}), {Root}, FALSE)
  /\ pathIn = <<>>

ConcNext ==
  \/ \E c \in Callers, op \in {"Save", "Create", "Delete"}, p \in DocInputs :
       callers[c].pc = "idle" /\ Call(c, op, p, 1)
  \/ \E c \in Callers, p \in DocInputs, q \in DocInputs :
       callers[c].pc = "idle" /\ CallRename(c, p, q)
  \/ \E c \in Callers : Lock(c)
  \/ \E c \in Callers : Stat(c)
  \/ \E c \in Callers : Write(c)
  \/ \E c \in Callers : Move(c)
  \/ \E c \in Callers : Remove(c)
  \/ HandleEvent(TRUE, {})

ConcSpec == ConcInit /\ [][ConcNext]_vars

\* ------------------------------------------------------- tree and watcher
\* documents are created and deleted by the service, in the root and in a
\* directory made on the way, and written and removed by other programs; the
\* watcher handles what it is told, and a rebuild can fail
TreeInputs == {<<"a">>, DocDC}
TreeFiles == {AbsOf(DocA)}

TreeInit ==
  /\ \E present \in SUBSET {AbsOf(DocA)}, hidden \in BOOLEAN :
       Constructed(InitialFiles(present), {Root, DirH, DirVendor}, hidden)
  /\ pathIn = <<>>

TreeNext ==
  \/ \E op \in {"Create", "Delete"}, p \in TreeInputs : Call(1, op, p, 1)
  \/ Lock(1)
  \/ Stat(1)
  \/ Write(1)
  \/ Remove(1)
  \/ \E f \in TreeFiles : ExtWrite(f, 1)
  \/ \E f \in TreeFiles : ExtRemove(f)
  \/ \E ok \in BOOLEAN : HandleEvent(ok, {})

TreeSpec == TreeInit /\ [][TreeNext]_vars

\* -------------------------------------------------- mutations and the tree
\* the service creates, deletes and renames documents in the root, in a
\* hidden directory and in an excluded one
MutationInputs == {<<"a">>, DocH, DocV}

MutationInit ==
  /\ \E hidden \in BOOLEAN : Constructed(NoFiles, {Root, DirH, DirVendor}, hidden)
  /\ pathIn = <<>>

MutationNext ==
  \/ \E op \in {"Create", "Delete"}, p \in MutationInputs : Call(1, op, p, 1)
  \/ \E q \in MutationInputs : CallRename(1, <<"a">>, q)
  \/ Lock(1)
  \/ Stat(1)
  \/ Write(1)
  \/ Move(1)
  \/ Remove(1)
  \/ HandleEvent(TRUE, {})

MutationSpec == MutationInit /\ [][MutationNext]_vars

\* ------------------------------------------------------- the atomic write
\* callers save and create a.md, with content it does not hold at the start,
\* step by step; any step can fail, and the process can stop between any two
\* steps
AtomicInit ==
  /\ \E present \in SUBSET {AbsOf(DocA)} : Constructed(InitialFiles(present), {Root}, FALSE)
  /\ pathIn = <<>>

AtomicNext ==
  \/ \E c \in Callers :
       \/ \E op \in {"Save", "Create"} : Call(c, op, <<"a">>, NumContents)
       \/ Lock(c)
       \/ Stat(c)
       \/ \E ok \in BOOLEAN : CreateTemp(c, ok)
       \/ \E ok \in BOOLEAN : WriteTemp(c, ok)
       \/ \E ok \in BOOLEAN : CloseTemp(c, ok)
       \/ \E ok \in BOOLEAN : RenameTemp(c, ok)
  \/ Stop
  \/ HandleEvent(TRUE, {})

AtomicSpec == AtomicInit /\ [][AtomicNext]_vars

\* -------------------------------------------------- events and subscribers
\* another program writes a.md in place while clients subscribe, read their
\* channel and go away, and the service is closed.  A run starts from the
\* state NewService leaves, or from a later one: a subscriber has been sent
\* all but one of the events its channel holds, each for a write of b.md, and
\* the event of one more write of b.md waits for the watcher
Waiting(full) ==
  IF full THEN << [Name |-> AbsOf(DocB), Op |-> {"Write"}] >> ELSE <<>>

\* a subscriber that has come and gone
Gone == [NoSub EXCEPT !.done = TRUE, !.chClosed = TRUE]

\* the subscribers before the last have gone
Subscribed(full) ==
  [id \in SubIds |->
     IF id < MaxSubs THEN Gone
     ELSE IF full
     THEN [NoSub EXCEPT !.reg = TRUE, !.waiting = TRUE,
                        !.ch = [i \in 1..(QueueCap - 1) |->
                                  [Type |-> eventTypePageUpdated, Path |-> DocB]]]
     ELSE NoSub]

EventInit ==
  /\ Started(InitialFiles({AbsOf(DocA), AbsOf(DocB)}), {Root}, FALSE)
  /\ \E full \in BOOLEAN :
       /\ events = Waiting(full)
       /\ subs = Subscribed(full)
       /\ subCounter = IF full THEN MaxSubs ELSE MaxSubs - 1
  /\ history = NoHistory
  /\ pathIn = <<>>

EventNext ==
  \/ ExtWrite(AbsOf(DocA), 1)
  \/ \E stale \in SUBSET SubIds : HandleEvent(TRUE, stale)
  \/ Subscribe
  \/ \E id \in SubIds : Cancel(id)
  \/ \E id \in SubIds : Cleanup(id)
  \/ \E id \in SubIds : Receive(id)
  \/ CancelService
  \/ CloseWatcher

EventSpec == EventInit /\ [][EventNext]_vars

\* ----------------------------------------------------- requests and CSRF
\* one request arrives at the middleware: any of the methods and paths below,
\* with or without an Origin and a Referer header, the hosts named with and
\* without a port
Port == <<":", "8080">>
HostNames == {HostLocalhost, HostLoopback4, HostLoopback6, <<"[", ":", ":", "2", "]">>,
              <<"example">>, <<"EXAMPLE">>, <<"other">>}
HostPorts == HostNames \cup {h \o Port : h \in HostNames}
Origins == {<<>>, <<"%">>, <<"null">>} \cup {<<"http://">> \o h : h \in HostPorts}
Referers == {<<>>} \cup {<<"http://">> \o h \o <<"/", "page">> :
                           h \in {HostLocalhost \o Port, HostLoopback6, <<"other">>}}
Methods == {"GET", "HEAD", "OPTIONS", "POST", "DELETE"}
Paths == {<<"/", "healthz">>, <<"/", "static", "/", "x">>, <<"/", "static">>,
          <<"/", "api", "/", "page">>}

Requests ==
  [Method : Methods, Path : Paths, Origin : Origins, Referer : Referers, Host : HostPorts]

RequestInit ==
  /\ NewService(InitialFiles({AbsOf(DocA)}), {Root}, FALSE, TRUE)
  /\ events = <<>>
  /\ subs = [id \in SubIds |-> NoSub]
  /\ subCounter = 0
  /\ history = NoHistory
  /\ pathIn = <<>>

\* the request arrives
Arrive(r) ==
  /\ request = NoRequest
  /\ request' = r
  /\ UNCHANGED <<pathVars, renderVars, files, dirs, clock, includeHidden, watched, events,
                 tree, rebuildOK, subs, subCounter, closed, callers, writeMu, last, owed,
                 temps, history, response, conn>>

\* the middleware answers it or passes it on
Csrf ==
  /\ request # NoRequest
  /\ response = NoResponse
  /\ response' = csrfMiddleware(request)
  /\ UNCHANGED <<pathVars, renderVars, files, dirs, clock, includeHidden, watched, events,
                 tree, rebuildOK, subs, subCounter, closed, callers, writeMu, last, owed,
                 temps, history, request, conn>>

RequestNext == (\E r \in Requests : Arrive(r)) \/ Csrf

RequestSpec == RequestInit /\ [][RequestNext]_vars

\* ------------------------------------------------------------ the snapshot
\* NewService succeeds or fails; if it has returned a service, another
\* program writes and removes a.md while the watcher's rebuilds succeed and
\* fail
SnapshotInit ==
  /\ \E present \in SUBSET TreeFiles, ok \in BOOLEAN :
       NewService(InitialFiles(present), {Root}, FALSE, ok)
  /\ events = <<>>
  /\ subs = [id \in SubIds |-> NoSub]
  /\ subCounter = 0
  /\ history = NoHistory
  /\ pathIn = <<>>

SnapshotNext ==
  /\ closed = "no"
  /\ \/ \E f \in TreeFiles, d \in Contents : ExtWrite(f, d)
     \/ \E f \in TreeFiles : ExtRemove(f)
     \/ Tick
     \/ \E ok \in BOOLEAN : HandleEvent(ok, {})

SnapshotSpec == SnapshotInit /\ [][SnapshotNext]_vars

\* ------------------------------------------------------------- the fan-out
\* the watcher handles the events of a save of a.md that has just returned,
\* while builds fail and clients subscribe, read their channel and go away;
\* what is broadcast is recorded.  Earlier subscribers have gone, one has not
\* read the events of QueueCap - 1 writes of a.md, the last is yet to come
Backlog == [i \in 1..(QueueCap - 1) |-> [Type |-> eventTypePageUpdated, Path |-> DocA]]
Lagging == MaxSubs - 1

Saved == writeFileAtomic(InitialFiles({AbsOf(DocA)}), {Root}, <<>>, 1, AbsOf(DocA), 1)

FanoutInit ==
  /\ Started(Saved.files, {Root}, FALSE)
  /\ events = Saved.events
  /\ subs = [id \in SubIds |->
               IF id < Lagging THEN Gone
               ELSE IF id = Lagging
               THEN [NoSub EXCEPT !.reg = TRUE, !.waiting = TRUE, !.ch = Backlog]
               ELSE NoSub]
  /\ subCounter = Lagging
  /\ history = [NoHistory EXCEPT !.on = TRUE, !.log = Backlog,
                                 !.queued[Lagging] = [i \in 1..(QueueCap - 1) |-> i]]
  /\ pathIn = <<>>

FanoutNext ==
  \/ \E ok \in BOOLEAN, stale \in SUBSET SubIds : HandleEvent(ok, stale)
  \/ Subscribe
  \/ \E id \in SubIds : Cancel(id)
  \/ \E id \in SubIds : Cleanup(id)
  \/ \E id \in SubIds : Receive(id)

FanoutSpec == FanoutInit /\ [][FanoutNext]_vars

\* ------------------------------------------------ subscribers that go away
\* clients subscribe and go away and the service is closed, before, while and
\* after the watcher handles the events of a save of a.md.  The goroutine that
\* Subscribe starts is scheduled once it can run; nothing else has to happen
CleanupInit ==
  /\ Started(Saved.files, {Root}, FALSE)
  /\ events = Saved.events
  /\ subs = [id \in SubIds |-> IF id < Lagging THEN Gone ELSE NoSub]
  /\ subCounter = Lagging - 1
  /\ history = NoHistory
  /\ pathIn = <<>>

CleanupNext ==
  \/ \E ok \in BOOLEAN, stale \in SUBSET SubIds : HandleEvent(ok, stale)
  \/ Subscribe
  \/ \E id \in SubIds : Cancel(id)
  \/ \E id \in SubIds : Cleanup(id)
  \/ \E id \in SubIds : Receive(id)
  \/ CancelService
  \/ CloseWatcher

CleanupSpec ==
  CleanupInit /\ [][CleanupNext]_vars /\ \A id \in SubIds : WF_vars(Cleanup(id))

\* ------------------------------------------------------ the page endpoints
\* one client at a time calls the five page endpoints on a.md (there or not at
\* the start) and b.md, with paths that are escaped, blank, outside the root or
\* badly encoded, and is answered
RawPaths == {<<"a">>, DocB, <<".", ".", "%2F", "a">>, <<"%20">>, <<"%25">>}
PayloadPaths == {<<"a">>, DocB, <<".", ".", "/", "a">>, <<" ">>}

PageInit ==
  /\ \E present \in SUBSET {AbsOf(DocA)} : Constructed(InitialFiles(present), {Root}, FALSE)
  /\ pathIn = <<>>

PageNext ==
  \/ \E op \in {"Document", "Save", "Delete", "Create"} :
       \E raw \in (IF op = "Create" THEN PayloadPaths ELSE RawPaths) :
         pageHandler(1, op, raw, IF op \in {"Save", "Create"} THEN 1 ELSE 0)
  \/ \E p \in PayloadPaths, q \in PayloadPaths : handleRenamePage(1, p, q)
  \/ Lock(1)
  \/ Stat(1)
  \/ Write(1)
  \/ Move(1)
  \/ Remove(1)
  \/ Respond(1)
  \/ HandleEvent(TRUE, {})

PageSpec == PageInit /\ [][PageNext]_vars

\* ------------------------------------------------- documents that are text
\* one caller saves, creates, renames and deletes notes.txt and b.md, while
\* <root>/notes.txt.md and <root>/b.md are there or not
ExtensionInputs == {NotesTxt, DocB}

ExtensionInit ==
  /\ \E present \in SUBSET {AbsOf(DocTxt), AbsOf(DocB)} :
       Constructed(InitialFiles(present), {Root}, FALSE)
  /\ pathIn = <<>>

ExtensionNext ==
  \/ \E op \in {"Save", "Create", "Delete"}, p \in ExtensionInputs : Call(1, op, p, NumContents)
  \/ \E p \in ExtensionInputs, q \in ExtensionInputs : CallRename(1, p, q)
  \/ Lock(1)
  \/ Stat(1)
  \/ Write(1)
  \/ Move(1)
  \/ Remove(1)
  \/ HandleEvent(TRUE, {})

ExtensionSpec == ExtensionInit /\ [][ExtensionNext]_vars

\* ------------------------------------------------------- the event stream
\* a client connects to GET /events, with a response writer that can flush or
\* one that cannot, while the watcher handles the events of a save of a.md;
\* writes to the client succeed or fail, the client goes away, the service is
\* closed.  The handler's goroutine and its
\* select are scheduled fairly
StreamInit ==
  /\ Started(Saved.files, {Root}, FALSE)
  /\ events = Saved.events
  /\ subs = [id \in SubIds |-> IF id < MaxSubs THEN Gone ELSE NoSub]
  /\ subCounter = MaxSubs - 1
  /\ history = NoHistory
  /\ pathIn = <<>>

StreamNext ==
  \/ \E flusher \in BOOLEAN : handleEventsOpen(flusher)
  \/ \E ok \in BOOLEAN : handleEventsReady(ok)
  \/ handleEventsDone
  \/ handleEventsClosed
  \/ \E ok \in BOOLEAN : handleEventsSend(ok)
  \/ \E stale \in SUBSET SubIds : HandleEvent(closed = "no", stale)
  \/ \E id \in SubIds : Cancel(id)
  \/ \E id \in SubIds : Cleanup(id)
  \/ CancelService
  \/ CloseWatcher

StreamSpec ==
  /\ StreamInit
  /\ [][StreamNext]_vars
  /\ WF_vars(handleEventsDone)
  /\ WF_vars(handleEventsClosed)
  /\ WF_vars(\E ok \in BOOLEAN : handleEventsSend(ok))

\* ------------------------------------------------------- the page route
\* a browser asks for /page/a, /page/b.md and for paths that are outside the
\* root, blank or badly encoded, while another program writes and removes
\* a.md and the watcher rebuilds the tree; the template renders or fails
RouteInit ==
  /\ \E present \in SUBSET {AbsOf(DocA)} : Constructed(InitialFiles(present), {Root}, FALSE)
  /\ pathIn = <<>>

RouteNext ==
  \/ \E raw \in RawPaths : handlePageRoute(1, raw)
  \/ \E ok \in BOOLEAN : respondPageRoute(1, ok)
  \/ \E d \in Contents : ExtWrite(AbsOf(DocA), d)
  \/ ExtRemove(AbsOf(DocA))
  \/ HandleEvent(TRUE, {})

RouteSpec == RouteInit /\ [][RouteNext]_vars

\* ---------------------------------------------------------- a call of Build
\* Build walks a root that holds any of the directories and files of WalkDirs
\* and WalkFiles, with and without IncludeHidden
BuildInit == Constructed(NoFiles, {Root}, FALSE) /\ pathIn = <<>>

BuildNext == \E in \in WalkInputs, hidden \in BOOLEAN : BuildTree(in, hidden)

BuildSpec == BuildInit /\ [][BuildNext]_vars

\* ------------------------------------------------------ links of documents
\* a document in the root or in the directory a holds a link whose destination
\* is one of the named ones or any string of up to MaxDestLen atoms
DocAB == <<"a", "/", "b", ".", "md">>
FooMd == <<"foo", ".", "md">>
LinkAtoms == {"http:", "ftp:", "/", "#", ".", "md", "foo", "page"}
NamedDests ==
  { <<>>, FooMd, <<"#", "x">>, SchemeHttp \o <<"x", "/">> \o FooMd,
    SchemeHttps \o <<"x", "/">> \o FooMd, <<"ftp:", "/", "/", "x", "/">> \o FooMd,
    <<"mailto:", "x", ".", "md">>, PagePrefix \o FooMd, <<"foo", ".", "txt">>,
    <<".", ".", "/">> \o FooMd }
Dests == NamedDests \cup UNION {[1..k -> LinkAtoms] : k \in 0..MaxDestLen}

LinkInit == Constructed(NoFiles, {Root}, FALSE) /\ pathIn = <<>>

LinkNext == \E doc \in {DocAB, DocB}, dest \in Dests : TransformLink(doc, dest)

LinkSpec == LinkInit /\ [][LinkNext]_vars

\* ------------------------------------------------- raw events, classified
\* a.md is on disk and b.md is not; the event names any path, with any op bits
ClassifyInit == Constructed(InitialFiles({AbsOf(DocA)}), {Root}, FALSE) /\ pathIn = <<>>

ClassifyNext == \E name \in Names, op \in SUBSET FsOps : ClassifyEvent(name, op)

ClassifySpec == ClassifyInit /\ [][ClassifyNext]_vars

\* ------------------------------------------- the snapshot and the event
\* another program writes and removes a.md, at most MaxUnhandled events ahead
\* of the watcher, which rebuilds (and fails to) and broadcasts; a subscriber
\* that is QueueCap - 2 events behind reads its channel
MaxUnhandled == 2

OrderInit ==
  /\ Started(InitialFiles({AbsOf(DocA)}), {Root}, FALSE)
  /\ events = <<>>
  /\ subs = [id \in SubIds |->
               IF id < MaxSubs THEN Gone
               ELSE [NoSub EXCEPT !.reg = TRUE, !.waiting = TRUE,
                                  !.ch = SubSeq(Backlog, 1, QueueCap - 2)]]
  /\ subCounter = MaxSubs
  /\ history = NoHistory
  /\ pathIn = <<>>

OrderNext ==
  \/ \E d \in Contents : Len(events) < MaxUnhandled /\ ExtWrite(AbsOf(DocA), d)
  \/ Len(events) < MaxUnhandled /\ ExtRemove(AbsOf(DocA))
  \/ \E ok \in BOOLEAN : HandleEventRebuild(ok)
  \/ HandleEventBroadcast({})
  \/ Receive(MaxSubs)

OrderSpec == OrderInit /\ [][OrderNext]_vars

\* ------------------------------------------------- renders at the same time
\* goroutines render a.md with any time and content, each call in its steps,
\* while the entry is invalidated
RaceInit == Constructed(NoFiles, {Root}, FALSE) /\ pathIn = <<>>

RaceNext ==
  \/ \E g \in Renderers, t \in Times, c \in Contents : RenderLoad(g, DocA, t, c)
  \/ \E g \in Renderers : RenderStore(g)
  \/ RenderInvalidate(DocA)

RaceSpec == RaceInit /\ [][RaceNext]_vars

\* ------------------------------------------- channels closed and sent on
\* as for the subscribers that go away, with handleEvent and broadcast in their
\* steps: the goroutine of a subscriber can run between the loop of broadcast
\* and each removeSubscriber
DetachInit == CleanupInit

DetachNext ==
  \/ \E ok \in BOOLEAN : HandleEventRebuild(ok)
  \/ \E stale \in SUBSET SubIds : BroadcastSends(stale)
  \/ \E id \in SubIds : removeSubscriber(id)
  \/ Subscribe
  \/ \E id \in SubIds : Cancel(id)
  \/ \E id \in SubIds : Cleanup(id)
  \/ \E id \in SubIds : Receive(id)
  \/ CancelService
  \/ CloseWatcher

DetachSpec == DetachInit /\ [][DetachNext]_vars

\* ================================================================== claims
Range(seq) == {seq[i] : i \in 1..Len(seq)}

\* C3: whenever resolveDocumentPath succeeds, the absolute path lies lexically
\* inside the root (it is the root joined with the relative path and has no
\* ".." element), and the relative path has no leading "/", no volume prefix
\* and no ".." element.
C3_ResolvedInsideRoot ==
  pathOut.err = ErrNone =>
    /\ HasPrefix(pathOut.abs, Root \o <<"/">>)
    /\ pathOut.abs = Root \o <<"/">> \o pathOut.rel
    /\ DotDot \notin Range(Split(pathOut.abs))
    /\ ~HasPrefix(pathOut.rel, <<"/">>)
    /\ VolumeName(pathOut.rel) = <<>>
    /\ DotDot \notin Range(Split(pathOut.rel))

\* an input that has a ".." element and is resolved all the same
C3_Witness == pathOut.err = ErrNone /\ DotDot \in Range(Split(pathIn))

\* C4: resolveDocumentPath fails with an invalid-path error for each of the
\* inputs "..", "../x", "/abs", "a/../../b" and "".
C4_NamedInputsRejected ==
  (pathIn \in NamedInputs /\ pathOut # NotCalled) => pathOut.err = ErrInvalidPath

TreePaths == {n.RelativePath : n \in tree}

\* the service is open, no event waits, and the last rebuild succeeded
Quiescent == closed = "no" /\ events = <<>> /\ rebuildOK

\* the documents of the model whose directory is neither hidden nor excluded,
\* the one in a hidden directory, the one in an excluded directory
PlainDocs == {DocA, DocB, DocDC}
Shown(r) == r \in PlainDocs \/ (includeHidden /\ r = DocH)

Returns(c, op) ==
  /\ callers'[c] # callers[c]
  /\ callers'[c].pc = "done"
  /\ callers'[c].op = op

\* C6: when a mutation has succeeded the cache holds no entry under the
\* wiki-relative path of the document (of either document, for a rename), and
\* a Document call that succeeds returns the rendering of what the file holds
C6_InvalidationRemovesEntry ==
  [][\A c \in Callers :
       /\ \A op \in Mutations :
            (Returns(c, op) /\ callers'[c].err = ErrNone) =>
              /\ ~cache'[callers'[c].rel].present
              /\ op = "Rename" => ~cache'[callers'[c].rel2].present
       /\ (Returns(c, "Document") /\ callers'[c].err = ErrNone) =>
            callers'[c].doc.Raw = files[callers'[c].abs].content
    ]_vars

\* ------------------------------------------------------------ rename (C10)
\* C10: once a rename has succeeded, and until the next mutation does,
\* Document of the source fails with not-found and Document of the destination
\* returns the rendering of what the source held
C10_RenameMovesContent ==
  [][\A c \in Callers :
       (Returns(c, "Document") /\ last.op = "Rename") =>
         /\ callers'[c].rel = last.rel => callers'[c].err = ErrNotExist
         /\ callers'[c].rel = last.rel2 =>
              /\ callers'[c].err = ErrNone
              /\ callers'[c].doc.Raw = last.content
              /\ callers'[c].doc.HTML = [dir |-> Dot, md |-> last.content]
    ]_vars

\* ------------------------------------------------- the write mutex (C8, C9)
InCriticalSection == {c \in Callers : callers[c].pc \in {"stat", "write"}}
Creators == {c \in Callers : callers[c].op = "Create" /\ callers[c].rel = DocA}

\* C8: at most one mutation is between its existence check and the end of its
\* change of the filesystem; and when every caller that has made a call has
\* called CreateDocument for a.md, which was absent, and all have returned,
\* exactly one has succeeded and every other has failed with already-exists
C8_WritersExcludeEachOther ==
  /\ Cardinality(InCriticalSection) <= 1
  /\ ( /\ Creators # {}
       /\ \A c \in Callers : c \in Creators \/ callers[c].op = "none"
       /\ \A c \in Creators : callers[c].pc = "done" )
     => /\ Cardinality({c \in Creators : callers[c].err = ErrNone}) = 1
        /\ \A c \in Creators : callers[c].err \in {ErrNone, ErrExist}

C8_Witness ==
  /\ Creators = Callers
  /\ \A c \in Callers : callers[c].pc = "done"
  /\ \E c \in Callers : callers[c].err = ErrExist

\* what the existence checks of a mutation must answer, from the filesystem
Missing(abs) == ~files[abs].exists /\ abs \notin dirs
Expected(me) ==
  IF me.op \in {"Save", "Delete", "Rename"} /\ Missing(me.abs) THEN "not found"
  ELSE IF me.op = "Create" /\ ~Missing(me.abs) THEN "already exists"
  ELSE IF me.op = "Rename" /\ ~Missing(me.abs2) THEN "already exists"
  ELSE "ok"

\* C9: a mutation whose existence check fails returns the matching error,
\* not-found before already-exists, and leaves every file and directory as it
\* was; a call that returns an error has changed nothing
C9_FailedPreconditionChangesNothing ==
  [][\A c \in Callers :
       /\ (callers[c].pc = "stat" /\ callers'[c] # callers[c] /\ Expected(callers[c]) # "ok") =>
            /\ callers'[c].pc = "done"
            /\ callers'[c].err = Expected(callers[c])
            /\ files' = files /\ dirs' = dirs
       /\ (callers'[c] # callers[c] /\ callers'[c].pc = "done" /\ callers'[c].err # ErrNone) =>
            files' = files /\ dirs' = dirs
    ]_vars

C9_Witness ==
  \E c \in Callers :
    /\ callers[c].pc = "done" /\ callers[c].op = "Rename"
    /\ callers[c].err = "not found"
    /\ Missing(callers[c].abs)
    /\ files[callers[c].abs2].exists
    /\ files[callers[c].abs2].content = 1
\* ------------------------------------------------------ the atomic write (C11)
\* C11: throughout SaveDocument and CreateDocument, and when the process
\* stops before the final rename, the target holds its previous content (or
\* does not exist, for a create), never part of the data: the target changes
\* in no step but the one with which the call returns success, and a call that
\* returns success leaves exactly its data in the target
C11_TargetOldOrNew ==
  [][/\ \A f \in FilePaths :
          /\ files'[f].exists => files'[f].content \in Contents
          /\ files'[f] # files[f] =>
               \E c \in Callers : /\ callers[c].pc = "rename"
                                  /\ callers[c].abs = f
                                  /\ callers'[c].pc = "done"
                                  /\ callers'[c].err = ErrNone
     /\ \A c \in Callers :
          (/\ callers[c].op \in {"Save", "Create"}
           /\ callers[c].pc \notin {"idle", "done"}
           /\ callers'[c].pc = "done"
           /\ callers'[c].err = ErrNone)
          => /\ files'[callers[c].abs].exists
             /\ files'[callers[c].abs].content = callers[c].data]_vars

\* the process has stopped in a save of which one write had reached the temp
\* sibling; the target holds other content
C11_Witness ==
  \E c \in Callers :
    /\ callers[c].pc = "stopped"
    /\ callers[c].op = "Save"
    /\ temps[c].exists
    /\ temps[c].chunks \in 1..(NumChunks - 1)
    /\ files[callers[c].abs].exists
    /\ files[callers[c].abs].content # callers[c].data

\* ------------------------------------------------------ the fan-out (C12-C17)
\* the step broadcasts an event: which one, and to whom it matters
BroadcastStep == history'.log # history.log
Broadcasted == history'.log[Len(history'.log)]
Live(id) == subs[id].reg /\ ~subs[id].done /\ closed = "no"

\* C12: when an event is broadcast while a registered subscriber's channel is
\* full and another live subscriber's has room, the watcher's turn ends (the
\* event has left the watcher's queue) and the event is at the end of the
\* other subscriber's channel
C12_FullSubscriberDoesNotStall ==
  [][\A slow \in SubIds, fast \in SubIds :
       ( /\ BroadcastStep
         /\ subs[slow].reg /\ Len(subs[slow].ch) = QueueCap
         /\ Live(fast) /\ Len(subs[fast].ch) < QueueCap )
       => /\ events' = Tail(events)
          /\ subs'[fast].ch = Append(subs[fast].ch, Broadcasted)]_vars

\* the lagging subscriber's channel is full, and the last subscriber has been
\* sent an event broadcast after the last one the lagging subscriber holds
C12_Witness ==
  /\ subs[Lagging].reg
  /\ Len(subs[Lagging].ch) = QueueCap
  /\ history.queued[MaxSubs] # <<>>
  /\ history.queued[MaxSubs][Len(history.queued[MaxSubs])]
       > history.queued[Lagging][QueueCap]

\* C13: a channel never holds more than QueueCap events; the broadcast of an
\* event leaves a live subscriber whose channel holds QueueCap as it is,
\* registered and with the same events, and puts the event at the end of the
\* channel of a live subscriber that has room
C13_FullQueueDropsForThatSubscriber ==
  [][\A id \in SubIds :
       /\ Len(subs[id].ch) <= QueueCap
       /\ Len(subs'[id].ch) <= QueueCap
       /\ (BroadcastStep /\ Live(id) /\ Len(subs[id].ch) = QueueCap) => subs'[id] = subs[id]
       /\ (BroadcastStep /\ Live(id) /\ Len(subs[id].ch) < QueueCap)
            => subs'[id] = [subs[id] EXCEPT !.ch = Append(@, Broadcasted)]]_vars

\* the lagging subscriber is registered; it was not sent an event that was
\* broadcast, and was sent a later one
C13_Witness ==
  /\ subs[Lagging].reg
  /\ \E i \in 1..(Len(history.queued[Lagging]) - 1) :
       history.queued[Lagging][i + 1] > history.queued[Lagging][i] + 1

\* C14: the events in a subscriber's channel are events that were broadcast
\* after it subscribed, each at its place in the order of broadcast, in
\* increasing order of place and after the place of the last event the
\* subscriber received: what it receives is an order-preserving subsequence
\* without duplicates of what was broadcast while it was registered
C14_ReceivedInBroadcastOrder ==
  \A id \in SubIds :
    LET q == history.queued[id]
    IN /\ Len(q) = Len(subs[id].ch)
       /\ \A i \in 1..Len(q) :
            /\ q[i] \in (history.since[id] + 1)..Len(history.log)
            /\ history.log[q[i]] = subs[id].ch[i]
       /\ \A i \in 1..(Len(q) - 1) : q[i] < q[i + 1]
       /\ q # <<>> => history.got[id] < q[1]

\* a subscriber has received events and holds others, one of which was
\* broadcast after an event it was not sent
C14_Witness ==
  \E id \in SubIds :
    /\ history.got[id] > 1
    /\ \E i \in 1..(Len(history.queued[id]) - 1) :
         history.queued[id][i + 1] > history.queued[id][i] + 1

\* C15: a registered subscriber whose context is cancelled, or whose service
\* is closed (when it subscribes or later), is removed from the registry and
\* its channel closed, whether or not another event is broadcast; in the end
\* every registered subscriber is live
C15_GoneSubscribersAreRemoved ==
  /\ \A id \in SubIds :
       (subs[id].reg /\ (subs[id].done \/ closed # "no"))
         ~> (~subs[id].reg /\ subs[id].chClosed)
  /\ <>[](\A id \in SubIds : subs[id].reg => (~subs[id].done /\ closed = "no"))

\* a subscriber of this run has cancelled and has been removed, its channel
\* closed, and the watcher has handled no event
C15_Witness ==
  \E id \in Lagging..MaxSubs :
    /\ subs[id].done /\ ~subs[id].reg /\ subs[id].chClosed /\ ~subs[id].waiting
    /\ events = Saved.events
    /\ closed = "no"

\* C16: no subscriber's channel holds an event of type unknown
C16_UnknownNeverEnqueued ==
  \A id \in SubIds : \A i \in 1..Len(subs[id].ch) :
    subs[id].ch[i].Type # eventTypeUnknown

\* C17: when the rebuild for a watcher event fails, the snapshot stays and no
\* subscriber is sent an event
C17_FailedRebuildBroadcastsNothing ==
  [][(events # <<>> /\ events' = Tail(events) /\ ~rebuildOK')
       => /\ tree' = tree
          /\ \A id \in SubIds : subs'[id].ch = subs[id].ch]_vars

\* ------------------------------------------------------ the snapshot (C18)
\* C18: once NewService has returned a service the published tree is never
\* nil, and a step either leaves it as it is or replaces it with the whole
\* tree that Build makes of the filesystem; NewService returns no service when
\* the initial build fails
C18_SnapshotWholeOrKept ==
  /\ []((closed = "failed") = (tree = NilTree))
  /\ [][closed' # "failed" =>
          /\ tree' # NilTree
          /\ tree' = tree \/ tree' = Build(files', cache', includeHidden).nodes]_vars

\* a rebuild has failed and the tree is the earlier snapshot, which holds a
\* file that is no longer there
C18_Witness ==
  /\ closed = "no"
  /\ ~rebuildOK
  /\ tree # {}
  /\ Build(files, cache, includeHidden).nodes = {}

\* ------------------------------------------------------ CSRF (C19, C20)
\* the host a "host" or "host:port" value names: the port, if there is one,
\* taken off, letter case aside, the three loopback names being one host
HostOnly(hp) ==
  IF Len(hp) > 2 /\ SubSeq(hp, Len(hp) - 1, Len(hp)) = Port
  THEN SubSeq(hp, 1, Len(hp) - 2) ELSE hp
Loopback == {HostLocalhost, HostLoopback4, HostLoopback6}
HostNamed(hp) ==
  IF ToLower(HostOnly(hp)) \in Loopback THEN HostLocalhost ELSE ToLower(HostOnly(hp))

\* the header the validation looks at, and whether it names the request's host
Claimed == IF request.Origin = <<>> THEN request.Referer ELSE request.Origin
NamesRequestHost ==
  /\ Claimed # <<>>
  /\ Claimed[1] = "http://"
  /\ HostNamed(urlParse(Claimed).Host) = HostNamed(request.Host)
Exempt ==
  \/ request.Method \in {"GET", "HEAD", "OPTIONS"}
  \/ request.Path = <<"/", "healthz">>
  \/ HasPrefix(request.Path, <<"/", "static", "/">>)

\* C19: a request is passed to the route handler only if its method is GET,
\* HEAD or OPTIONS, or its path is /healthz or begins with /static/, or its
\* Origin (its Referer, when there is no Origin) names the host of the
\* request; any other request is answered 403 "Forbidden: Invalid origin", and
\* no document changes
C19_OnlySameHostReachesHandler ==
  response # NoResponse =>
    /\ response.next => (Exempt \/ NamesRequestHost)
    /\ ~(Exempt \/ NamesRequestHost) => response = Forbidden
    /\ files = InitialFiles({AbsOf(DocA)})

\* C20: a mutating request whose Origin (or Referer) names localhost,
\* 127.0.0.1 or [::1], with or without a port, and whose Host is any of the
\* three, with or without a port, is passed to the route handler
C20_LoopbackNamesAreOneHost ==
  ( /\ response # NoResponse
    /\ Claimed # <<>> /\ Claimed[1] = "http://"
    /\ HostOnly(urlParse(Claimed).Host) \in Loopback
    /\ HostOnly(request.Host) \in Loopback )
  => response.next

\* ------------------------------------------------ the page endpoints (C21)
\* C21: on the page endpoints a failure of the content service is answered
\* with the status of its kind: invalid path 400, not found 404, already
\* exists 409.
C21_FailureMappedToStatus ==
  [][\A c \in Callers :
       (callers[c].pc = "done" /\ callers'[c].pc = "idle") =>
         /\ callers[c].err \in {ErrInvalidPath, ErrEscapesRoot} => response'.status = 400
         /\ callers[c].err = ErrNotExist => response'.status = 404
         /\ callers[c].err = ErrExist => response'.status = 409]_vars

\* --------------------------------------------------- markdown only (C22)
\* filepath.Ext of the path is .md or .markdown
MarkdownExt(path) == HasSuffix(path, ExtMd) \/ HasSuffix(path, ExtMarkdown)

\* C22: a call of SaveDocument, CreateDocument, RenameDocument or
\* DeleteDocument with a path whose extension is not .md or .markdown returns
\* an error, and no step of it creates, changes, renames or removes a file.
C22_OtherExtensionsRejected ==
  [][\A c \in Callers :
       (callers[c].op \in Mutations /\ callers[c].pc \in {"lock", "stat", "write"}
        /\ (~MarkdownExt(callers[c].path)
            \/ (callers[c].op = "Rename" /\ ~MarkdownExt(callers[c].path2)))) =>
         /\ files' = files
         /\ callers'[c].pc = "done" => callers'[c].err # ErrNone]_vars

\* ------------------------------------------------ the event stream (C23, C24)
\* the records of the events in the order they were taken from the channel
Records(taken) == [i \in 1..Len(taken) |-> Data(taken[i])]

\* what a handler that can flush has written: nothing before the ready
\* comment, then the comment and a record for every event taken, the last
\* one missing if its write failed
Streamed ==
  conn.flusher =>
    /\ conn.flushed = Len(conn.body)
    /\ conn.body = IF conn.pc = "subscribed" \/ (conn.failed /\ conn.taken = <<>>) THEN <<>>
                   ELSE IF conn.failed THEN <<Ready>> \o Records(Front(conn.taken))
                   ELSE <<Ready>> \o Records(conn.taken)

\* C23: on GET /events the first thing written is the comment ": ready" and a
\* blank line; every event taken from the subscription is then written as one
\* "data: <json>" record, in the order taken; and once the request context is
\* cancelled or the channel closed the handler returns.
C23_ReadyThenEventsInOrder ==
  /\ []Streamed
  /\ (conn.pc = "streaming" /\ (subs[conn.sub].done \/ subs[conn.sub].chClosed))
       ~> (conn.pc = "returned")

C23_Witness ==
  /\ conn.pc = "returned"
  /\ conn.flusher
  /\ ~conn.failed
  /\ subs[conn.sub].done
  /\ Len(conn.taken) >= 2
  /\ conn.taken[1] # conn.taken[2]

\* C24: if the response writer of the /events handler cannot flush, the
\* status of the response is 500 and no subscription is made.
C24_NoFlusherIs500 ==
  (conn.pc = "returned" /\ ~conn.flusher) => (conn.status = 500 /\ conn.sub = 0)

\* ---------------------------------------------------- the page route (C25)
\* C25: GET /page/{path} for a valid path whose document does not exist is
\* answered 404, with the layout and its missing-document page as the body.
C25_MissingDocumentIs404 ==
  [][\A c \in Callers :
       (callers[c].pc = "done" /\ callers'[c].pc = "idle" /\ callers[c].err = ErrNotExist) =>
         response'.status = 404]_vars

\* ------------------------------------------------- the tree's nodes (C26, C27)
\* the nodes of the tree below and including `node`
RECURSIVE NodesOf(_)
NodesOf(node) ==
  {node} \cup UNION {NodesOf(node.Children[i]) : i \in 1..Len(node.Children)}

\* the children of a node are in order: no file before a directory, and in
\* each of the two groups no title before a smaller one
InOrder(node) ==
  \A i, j \in 1..Len(node.Children) :
    i < j =>
      LET a == node.Children[i]
          b == node.Children[j]
      IN /\ ~(a.Type = NodeTypeFile /\ b.Type = NodeTypeDirectory)
         /\ a.Type = b.Type => Compare(a.Title, b.Title) <= 0

\* C26: in every tree Build returns, in each directory node all directory
\* children precede all file children, and within each group the titles are
\* non-decreasing under byte-wise comparison.
C26_ChildrenSorted ==
  walk.done => \A n \in NodesOf(walk.node) : InOrder(n)

\* the sort has moved a directory before files and a file before another
C26_Witness ==
  /\ walk.done
  /\ Len(walk.node.Children) >= 4
  /\ \E i, j \in 1..Len(walk.node.Children) :
       /\ i < j
       /\ walk.node.Children[i].RawName = <<"a", ".", "md">>
       /\ walk.node.Children[j].RawName = <<"B", ".", "MD">>
  /\ walk.node.Children[1].RawName = <<"d">>

\* the name is in the exclusion set, compared without regard to case
InExclusionSet(name) == ToLower(name) \in defaultExcludedDirs

\* the elements of the path of a node, and those of the directories above it
Elements(node) == Split(node.RelativePath)
Above(node) == Front(Elements(node))

\* the file is one of those the rules leave: no element of its path is hidden
\* (unless IncludeHidden), no directory on it is excluded, it is markdown
Kept(f, hidden) ==
  LET segs == Split(f)
      name == segs[Len(segs)]
  IN /\ \A i \in 1..Len(segs) : hidden \/ segs[i][1] # "."
     /\ \A i \in 1..(Len(segs) - 1) : ~InExclusionSet(segs[i])
     /\ HasSuffix(ToLower(name), ExtMd) \/ HasSuffix(ToLower(name), ExtMarkdown)

\* C27: in every tree Build returns, no directory but the root has zero
\* children; no node lies in or below a directory whose name is in the
\* exclusion set (case-insensitively); unless IncludeHidden is set no node
\* below the root has a name that begins with "."; and every markdown file not
\* excluded by these rules has a file node.
C27_PrunedExcludedHiddenComplete ==
  walk.done =>
    LET nodes == NodesOf(walk.node)
        below == nodes \ {walk.node}
    IN /\ \A n \in below : n.Type = NodeTypeDirectory => n.Children # <<>>
       /\ \A n \in below :
            /\ \A i \in 1..Len(Above(n)) : ~InExclusionSet(Above(n)[i])
            /\ n.Type = NodeTypeDirectory => ~InExclusionSet(n.RawName)
       /\ ~walk.hidden =>
            \A n \in below : \A i \in 1..Len(Elements(n)) : Elements(n)[i][1] # "."
       /\ \A f \in walk.fs.files :
            Kept(f, walk.hidden) =>
              \E n \in below : n.Type = NodeTypeFile /\ n.RelativePath = f

\* the root holds an empty directory, one with a text file only, an excluded
\* one and a hidden one with documents, a hidden document, and documents that
\* are kept
C27_Witness ==
  /\ walk.done
  /\ ~walk.hidden
  /\ {WalkD, WalkDE, WalkH, WalkV, WalkX} \subseteq walk.fs.dirs
  /\ walk.fs.files = {<<".", "h", "/", "a", ".", "md">>, <<"VENDOR", "/", "a", ".", "md">>,
                      <<"x", "/", "c", ".", "txt">>, <<".", "s", ".", "md">>,
                      <<"B", ".", "MD">>, <<"d", "/", "a", ".", "md">>}
  /\ Cardinality(NodesOf(walk.node)) = 4

\* --------------------------------------------------------- links (C28)
\* the destination begins with a URL scheme
HasScheme(dest) == dest # <<>> /\ dest[1] \in {"http:", "https:", "ftp:", "mailto:"}

\* C28: in a document at a/b.md the link foo.md becomes /page/a/foo.md, and a
\* destination that is empty, a fragment, protocol-prefixed (http://,
\* https:// or another scheme), already under /page/, or does not end in .md
\* is left as it is.
C28_LinksRewritten ==
  link.done =>
    /\ (link.doc = DocAB /\ link.dest = FooMd) => link.out = PagePrefix \o <<"a", "/">> \o FooMd
    /\ (\/ link.dest = <<>>
        \/ HasPrefix(link.dest, <<"#">>)
        \/ HasScheme(link.dest)
        \/ HasPrefix(link.dest, PagePrefix)
        \/ ~HasSuffix(link.dest, ExtMd)) => link.out = link.dest

\* ------------------------------------------------- classifyEvent (C29)
OnDisk(name) == PathExists(files, dirs, name)

\* C29: a remove on a markdown path is pageUpdated if the path is still on
\* disk and deleted otherwise, a remove on another path is treeUpdated; a
\* rename is treeUpdated; a write or create is pageUpdated on a markdown path
\* and treeUpdated otherwise; any other op is unknown; with several bits set
\* remove goes before rename and rename before write and create.
C29_EventClassified ==
  classified.done =>
    LET op == classified.Op
        md == isMarkdownPath(classified.Name)
    IN /\ ("Remove" \in op /\ md /\ OnDisk(classified.Name)) => classified.type = "pageUpdated"
       /\ ("Remove" \in op /\ md /\ ~OnDisk(classified.Name)) => classified.type = "deleted"
       /\ ("Remove" \in op /\ ~md) => classified.type = "treeUpdated"
       /\ ("Remove" \notin op /\ "Rename" \in op) => classified.type = "treeUpdated"
       /\ (op \cap {"Remove", "Rename"} = {} /\ op \cap {"Write", "Create"} # {})
            => classified.type = (IF md THEN "pageUpdated" ELSE "treeUpdated")
       /\ op \cap {"Remove", "Rename", "Write", "Create"} = {} => classified.type = "unknown"

\* a remove and a rename in one event, on a markdown file that is gone
C29_Witness ==
  /\ classified.done
  /\ {"Remove", "Rename"} \subseteq classified.Op
  /\ isMarkdownPath(classified.Name)
  /\ ~OnDisk(classified.Name)
  /\ classified.type = "deleted"

\* ------------------------------------------ stale subscribers (C30)
\* the watcher's turn on the next raw event reaches broadcast
Broadcasts ==
  /\ events # <<>>
  /\ events' = Tail(events)
  /\ closed # "closed"
  /\ closed' = closed
  /\ \/ rebuildOK'
     \/ classifyEvent(PathExists(files, dirs, Head(events).Name), Head(events).Op,
                      Head(events).Name \in MarkdownNames)
          \notin {eventTypeTreeUpdated, eventTypeDeleted}

\* C30: in a broadcast a subscriber whose context is done, or whose service's
\* is, is not sent the event, whether or not its channel has room, and when
\* broadcast returns it is out of the registry and its channel is closed
C30_DoneSubscriberIsStaleNotSent ==
  [][Broadcasts =>
       \A id \in SubIds :
         (subs[id].reg /\ (subs[id].done \/ closed # "no")) =>
           /\ subs'[id].ch = subs[id].ch
           /\ ~subs'[id].reg
           /\ subs'[id].chClosed]_vars

\* ------------------------------------------- ready and Subscribe (C31)
\* C31: when the /events handler has registered its subscription with the
\* content service, the ": ready" comment has been written and flushed
C31_ReadyBeforeSubscribe ==
  conn.sub # 0 => (conn.flushed >= 1 /\ conn.body # <<>> /\ conn.body[1] = Ready)

\* --------------------------------------- snapshot before event (C32)
\* the watcher takes the next raw event and rebuilds the tree
Rebuilds == events # <<>> /\ events' = Tail(events) /\ closed # "closed" /\ closed' = closed

\* a subscriber's channel is sent an event
Enqueues == \E id \in SubIds : Len(subs'[id].ch) > Len(subs[id].ch)

\* C32: the snapshot a successful rebuild publishes is built from the
\* filesystem as it is once the event has been raised, it stays the published
\* one until the event has been broadcast, and an event is enqueued only then:
\* a subscriber that has received the event reads that snapshot or a later one
C32_SnapshotPublishedBeforeEvent ==
  [][/\ (Rebuilds /\ rebuildOK') => tree' = Build(files, cache', includeHidden).nodes
     /\ pending.on => tree' = tree
     /\ Enqueues => (pending.on /\ ~pending'.on)]_vars

\* a.md has been removed, the rebuild for the event has left the tree without
\* it, and the subscriber has then been sent the deleted event
C32_Witness ==
  /\ ~pending.on
  /\ rebuildOK
  /\ ~files[AbsOf(DocA)].exists
  /\ TreePaths = {}
  /\ subs[MaxSubs].ch # <<>>
  /\ subs[MaxSubs].ch[Len(subs[MaxSubs].ch)] = [Type |-> eventTypeDeleted, Path |-> DocA]

\* ------------------------------------------------------ the watches (C33)
\* the directory is the root, or no directory from below the root down to it
\* is hidden (unless hidden entries are included) or in the exclusion set
Qualifies(d) ==
  \/ d = Root
  \/ LET segs == Split(Rel(Root, d))
     IN \A i \in 1..Len(segs) :
          /\ includeHidden \/ ~IsHiddenName(segs[i])
          /\ ~isExcluded(segs[i])

\* C33: only the root and the directories that are neither hidden (unless
\* hidden entries are included) nor excluded nor below such a directory are
\* watched, and once the events have been handled each of them that exists is
\* watched
C33_WatchedExactlyQualifying ==
  /\ \A d \in watched : Qualifies(d)
  /\ (closed = "no" /\ events = <<>>) => \A d \in dirs : Qualifies(d) => d \in watched

\* --------------------------------------------- one whole entry (C34)
\* the goroutine's call of Render looks the cache up / stores its entry
Loads(g) == renders[g].op \in {"idle", "returned"} /\ renders'[g] # renders[g]
Stores(g) == renders[g].op = "converted" /\ renders'[g].op = "returned"

\* the entry holds a document made in one call: its time is the call's and its
\* HTML is the conversion of its markdown
Whole(k, entry) ==
  entry.present =>
    /\ entry.doc.Modified = entry.modTime
    /\ entry.doc.HTML = Convert(k, entry.doc.Raw)

\* C34: the cache holds for a path the one entry the last Store or Delete on it
\* left, whole: a Render stores its own time and document together, whatever
\* other Renders of the path are under way; a Render whose time is not the
\* entry's converts its own content, whatever was cached for that time before
C34_OneWholeEntryPerPath ==
  /\ [](\A k \in CacheKeys : Whole(k, cache[k]))
  /\ [][/\ \A g \in Renderers :
            /\ Stores(g) =>
                 cache' = [cache EXCEPT ![renders[g].path] =
                             [present |-> TRUE, modTime |-> renders[g].modTime,
                              doc |-> renders[g].doc]]
            /\ Loads(g) =>
                 LET r == renders'[g]
                     entry == cache[r.path]
                 IN /\ cache' = cache
                    /\ r.modTime # entry.modTime =>
                         (r.converted /\ r.doc.Raw = r.content
                            /\ r.doc.HTML = Convert(r.path, r.content))
                    /\ ~r.converted => (entry.present /\ r.doc = entry.doc)
        /\ \A k \in CacheKeys :
             cache'[k] # cache[k] =>
               \/ cache'[k] = NoEntry
               \/ \E g \in Renderers : Stores(g) /\ renders[g].path = k
       ]_vars

\* two Renders of a.md with one time and different content have both missed,
\* converted and stored; the entry is the document of the first
C34_Witness ==
  /\ renders[1].op = "returned" /\ renders[2].op = "returned"
  /\ renders[1].converted /\ renders[2].converted
  /\ renders[1].path = renders[2].path
  /\ renders[1].modTime = renders[2].modTime /\ renders[1].modTime # ZeroTime
  /\ renders[1].loaded = renders[2].loaded
  /\ renders[1].content # renders[2].content
  /\ cache[renders[1].path].doc = renders[1].doc

\* ------------------------------------------ no send after close (C35)
\* C35: a channel is closed only in the step that takes its subscriber out of
\* the registry, so none is closed twice, and an event is sent only on the
\* channel of a subscriber in the registry, which is open
C35_NoSendOnClosedNoDoubleClose ==
  /\ [](\A id \in SubIds : subs[id].reg => ~subs[id].chClosed)
  /\ [][\A id \in SubIds :
          /\ Len(subs'[id].ch) > Len(subs[id].ch) => (subs[id].reg /\ ~subs[id].chClosed)
          /\ (subs'[id].chClosed /\ ~subs[id].chClosed) => (subs[id].reg /\ ~subs'[id].reg)
          /\ subs[id].chClosed => subs'[id].chClosed
       ]_vars

\* broadcast has noted a subscriber as stale and the subscriber's own goroutine
\* has detached it before removeSubscriber runs
C35_Witness ==
  \E id \in pending.stale : subs[id].chClosed /\ ~subs[id].reg /\ ~subs[id].waiting

\* ------------------------------------- a document and the file it is of
\* Document in its steps, for calls that run while the file changes: os.Stat
\* gives the modification time, os.ReadFile the content, and Render is called
\* with the two.  buildFileNode takes the same steps for every file of a tree:
\* the time of the os.FileInfo its caller got, os.ReadFile, Render
MaxChanges == 3

DocumentStat(g, rel) ==
  LET abs == AbsOf(rel)
  IN /\ renders[g].op \in {"idle", "returned"}
     /\ files[abs].exists
     /\ renders' = [renders EXCEPT ![g] =
                      [NoCall EXCEPT !.op = "stat", !.path = rel, !.modTime = files[abs].mtime]]
     /\ UNCHANGED <<pathIn, pathOut, walk, link, classified, pending, writer, extracted, renderVars, svcVars>>

\* os.ReadFile: the content of the file as it is now, or the error of a file
\* that has gone since, with which Document returns
DocumentRead(g) ==
  LET abs == AbsOf(renders[g].path)
  IN /\ renders[g].op = "stat"
     /\ renders' = [renders EXCEPT ![g] =
                      IF files[abs].exists
                      THEN [@ EXCEPT !.op = "read", !.content = files[abs].content]
                      ELSE [NoCall EXCEPT !.op = "idle"]]
     /\ UNCHANGED <<pathIn, pathOut, walk, link, classified, pending, writer, extracted, renderVars, svcVars>>

\* Render up to the conversion, with the time and the content the call holds
DocumentRender(g) ==
  LET r == renders[g]
      doc == [HTML |-> Convert(r.path, r.content), Modified |-> r.modTime, Raw |-> r.content]
      hit == CacheHit(cache, r.path, r.modTime)
  IN /\ r.op = "read"
     /\ renders' = [renders EXCEPT ![g] =
                      [r EXCEPT !.op = IF hit THEN "returned" ELSE "converted",
                                !.loaded = cache[r.path],
                                !.doc = IF hit THEN cache[r.path].doc ELSE doc,
                                !.converted = ~hit]]
     /\ UNCHANGED <<pathIn, pathOut, walk, link, classified, pending, writer, extracted, renderVars, svcVars>>

\* a change of the content of the file f at a time the file never had: the
\* content is numbered by the change
ChangeAtNewTime(f) ==
  /\ clock < 1 + MaxChanges
  /\ DirOf[f] \in dirs
  /\ clock' = clock + 1
  /\ files' = [files EXCEPT ![f] = [exists |-> TRUE, content |-> clock + 1, mtime |-> clock + 1]]
  /\ events' = IF files[f].exists THEN Raise(watched, events, f, "Write")
               ELSE RaiseAll(watched, events, << <<f, "Create">>, <<f, "Write">> >>)
  /\ Len(events') <= MaxEvents
  /\ last' = NoLast
  /\ owed' = Owing(f)
  /\ UNCHANGED <<pathVars, otherVars, renderVars, dirs, includeHidden, watched, tree, rebuildOK,
                 subVars, closed, callers, writeMu>>

FreshInit == Constructed(InitialFiles({AbsOf(DocA)}), {Root}, FALSE) /\ pathIn = <<>>

FreshNext ==
  \/ Len(events) < MaxUnhandled /\ ChangeAtNewTime(AbsOf(DocA))
  \/ Len(events) < MaxUnhandled /\ ExtRemove(AbsOf(DocA))
  \/ \E g \in Renderers : DocumentStat(g, DocA)
  \/ \E g \in Renderers : DocumentRead(g)
  \/ \E g \in Renderers : DocumentRender(g)
  \/ \E g \in Renderers : RenderStore(g)
  \/ HandleEvent(TRUE, {})

FreshSpec == FreshInit /\ [][FreshNext]_vars

\* C36: the changes number the content and the time alike, so the time a call
\* got from os.Stat is the number of the last change completed before it, and
\* the document the call returns is of that content or of a later one
C36_NeverOlderThanTheCallsStart ==
  \A g \in Renderers :
    renders[g].op = "returned" => renders[g].doc.Raw >= renders[g].modTime

\* a call that began after a change found the entry of older content in the
\* cache and returned the document of the content of the change
C36_Witness ==
  \E g \in Renderers :
    /\ renders[g].op = "returned"
    /\ renders[g].modTime > 1
    /\ renders[g].loaded.present
    /\ renders[g].loaded.doc.Raw < renders[g].modTime
    /\ renders[g].doc.Raw = renders[g].modTime

\* ------------------------------------ the paths of the tree as documents (C37)
\* the file the builder read for a file node: its path below the root
BuiltFile(node) == Abs(Join(Root, FromSlash(node.RelativePath)))

\* C37: for every file node of a tree Build returns, Document resolves the
\* node's RelativePath to the file the builder read, whatever the letter case
\* of its .md or .markdown extension
C37_TreePathsResolveToBuiltFile ==
  walk.done =>
    \A n \in NodesOf(walk.node) :
      n.Type = NodeTypeFile =>
        LET r == resolveDocumentPath(n.RelativePath)
        IN r.err = ErrNone /\ r.abs = BuiltFile(n)

\* ------------------------------------------ the writer of /events (C38)
\* as for the stream of events, with the server started with or without
\* verbose logging and the request accepting gzip or not
ChainInit == StreamInit

ChainNext ==
  \/ \E verbose \in BOOLEAN : Start(verbose)
  \/ \E acceptsGzip \in BOOLEAN : ServeEvents(acceptsGzip)
  \/ \E ok \in BOOLEAN : handleEventsReady(ok)
  \/ handleEventsDone
  \/ handleEventsClosed
  \/ \E ok \in BOOLEAN : handleEventsSend(ok)
  \/ \E stale \in SUBSET SubIds : HandleEvent(closed = "no", stale)
  \/ \E id \in SubIds : Cancel(id)
  \/ \E id \in SubIds : Cleanup(id)
  \/ CancelService
  \/ CloseWatcher

ChainSpec == ChainInit /\ [][ChainNext]_vars

\* C38: the writer that reaches the /events handler supports flushing under
\* every configuration of the middleware, with gzip or without, with verbose
\* logging or without: the handler finds an http.Flusher and streams
C38_EventsWriterFlushes ==
  conn.pc # "none" => (IsFlusher(writer.stack) /\ conn.flusher /\ conn.status = 200)

\* --------------------------------------------- no temp file left (C39)
\* the call of c has a temp sibling and returns in this step
ReturnsFromWrite(c) ==
  /\ callers[c].op \in {"Save", "Create"}
  /\ callers[c].pc \in {"temp", "rename"}
  /\ callers'[c].pc = "done"

\* C39: a call that has returned has left no temp file: with success the temp
\* file has become the target, which holds what the temp file held; with a
\* failure of a write, the sync, the chmod, the close or the rename the temp
\* file has been removed and the target is as it was
C39_NoTempLeftBehind ==
  /\ [](\A c \in Callers : callers[c].pc \in {"idle", "done"} => ~temps[c].exists)
  /\ [][\A c \in Callers :
          ReturnsFromWrite(c) =>
            /\ temps[c].exists /\ ~temps'[c].exists
            /\ IF callers'[c].err = ErrNone
                 THEN /\ files'[callers[c].abs].exists
                      /\ files'[callers[c].abs].content = Holding(temps[c])
                      /\ files'[callers[c].abs].mtime = temps[c].mtime
                 ELSE files' = files
       ]_vars

\* a save has failed after a write to its temp file, which has been removed;
\* the target holds what it held
C39_Witness ==
  \E c \in Callers :
    /\ callers[c].pc = "done"
    /\ callers[c].op = "Save"
    /\ callers[c].err = ErrIO
    /\ ~temps[c].exists
    /\ files[callers[c].abs].exists
    /\ files[callers[c].abs].content = 1
    /\ \E i, j \in 1..Len(events) :
         /\ i < j
         /\ events[i].Name = TempName(DirOf[callers[c].abs]) /\ "Write" \in events[i].Op
         /\ events[j].Name = events[i].Name /\ "Remove" \in events[j].Op

\* ------------------------------------------- renders of one document (C40)
\* a Render that misses the cache extracts the metadata of the frontmatter
\* `raw`; the range over the map visits the keys in the order `order`.  The
\* second render is of the content of the first
ExtractMetadata(g, raw, order) ==
  /\ ~extracted[g].done
  /\ \A h \in 1..2 : extracted[h].done => extracted[h].raw = raw
  /\ extracted' = [extracted EXCEPT ![g] =
                     [done |-> TRUE, raw |-> raw, meta |-> extractMetadata(raw, order)]]
  /\ UNCHANGED <<pathIn, pathOut, walk, link, classified, pending, renders, writer, renderVars,
                 svcVars>>

MetaInit == Constructed(NoFiles, {Root}, FALSE) /\ pathIn = <<>>

MetaNext == \E g \in 1..2, raw \in Frontmatters, order \in KeyOrders : ExtractMetadata(g, raw, order)

MetaSpec == MetaInit /\ [][MetaNext]_vars

\* C40: two uncached renders of the same content give the same metadata, also
\* when the frontmatter holds both description and summary, or both tags and
\* keywords
C40_RenderDeterministic ==
  (extracted[1].done /\ extracted[2].done /\ extracted[1].raw = extracted[2].raw)
    => extracted[1].meta = extracted[2].meta

====
